---- MODULE Spec2Model ----
(***************************************************************************)
(* A model of the paxy assembler (src/paxy/compiler/assembler.py), of the  *)
(* calling-convention normalizer (src/paxy/compiler/twelve.py), of the     *)
(* operator resolver (src/paxy/compiler/opcoerce.py) and of the command-   *)
(* line entry point (src/paxy/cli.py).                                     *)
(*                                                                         *)
(* Python lists are modelled as sequences; every index in the model is the *)
(* 0-based index of the Python code (At, DelAt, InsAt translate).          *)
(***************************************************************************)
EXTENDS Integers, Sequences, FiniteSets, TLC

VARIABLES
    py313,      \* TRUE when sys.version_info >= (3, 13)
    nseq,       \* normalizer harness: the input stream
    nout1,      \* normalizer harness: normalize(nseq)
    nout2,      \* normalizer harness: normalize(normalize(nseq))
    nstage,     \* normalizer harness: how many times the normalizer has run
    stack,      \* the Assembler instances alive, outermost first
    nextLabel,  \* identity of the next bytecode.Label() object
    status,     \* "idle", "running", "done" or "error"
    error,      \* the exception that aborted resolve()
    output,     \* the list resolve() returned
    coerce,     \* operator resolver harness: family, argument and results
    cli,        \* the command-line entry point: arguments, position, calls made
    scan,       \* the normalizer's while loop, one iteration at a time
    cache,      \* the source file, its cache file and the loads made
    parser      \* the parser harness: the token stream and what parsing it gave

vars == <<py313, nseq, nout1, nout2, nstage, stack, nextLabel, status, error, output,
          coerce, cli, scan, cache, parser>>

(***************************************************************************)
(* Bounds of the model.                                                    *)
(***************************************************************************)
MaxNorm == 4    \* longest stream handed to the normalizer harness
MaxFlat == 4    \* longest flat IR list handed to resolve()
MaxBody == 2    \* longest body of a FuncDef or RangeBlock
MaxInner == 1   \* longest body of a block nested in a body
MaxCall == 3    \* longest list with a flagged callable load
MaxCode == 13   \* integer arguments of the operator resolver run from -1 to MaxCode
MaxOpt == 3     \* values of -O on the command line run from 1 to MaxOpt
MaxSrc == 6     \* lines of a source the parser is given
MaxByte == 3    \* the bytes of the source file run from 0 to MaxByte
HashBits == 1   \* bits of the source hash the model keeps

(***************************************************************************)
(* IR items (src/paxy/compiler/ir.py) and bytecode items.                  *)
(***************************************************************************)
NoLine == 0     \* lineno=None
None == -1      \* the None an index search returns

NoArg == [t |-> "none"]
StrArg(s) == [t |-> "str", s |-> s]
IntArg(n) == [t |-> "int", n |-> n]
LblArg(l) == [t |-> "label", l |-> l]
LgArg(flag, s) == [t |-> "lg", flag |-> flag, s |-> s]
CodeArg(body, argnames) ==
    [t |-> "code", body |-> body, argcount |-> Len(argnames), argnames |-> argnames]

Instr(op, arg, line) == [k |-> "Instr", op |-> op, arg |-> arg, line |-> line]
Label(id) == [k |-> "Label", id |-> id]
LabelDecl(name, line) == [k |-> "LabelDecl", label_name |-> name, line |-> line]
JumpRef(name, line) == [k |-> "JumpRef", target_name |-> name, line |-> line]
NamedJump(opcode, name, line) ==
    [k |-> "NamedJump", opcode |-> opcode, target_name |-> name, line |-> line]
FuncDef(name, params, body, line) ==
    [k |-> "FuncDef", name |-> name, params |-> params, body |-> body, line |-> line]
ReturnMarker(has_value, line) ==
    [k |-> "ReturnMarker", has_value |-> has_value, line |-> line]
RangeBlock(var, start, end, body, line) ==
    [k |-> "RangeBlock", var |-> var, start |-> start, end |-> end,
     body |-> body, line |-> line]
IdentTok(s) == [t |-> "ident", s |-> s]
ConstTok(n) == [t |-> "int", n |-> n]
Placeholder(tag, opcode, ref) ==
    [k |-> "Placeholder", tag |-> tag, opcode |-> opcode, ref |-> ref]

COND_JUMP_OPS == {"POP_JUMP_IF_FALSE", "POP_JUMP_IF_TRUE"}
UNCOND_JUMP_FIXED == {"JUMP_FORWARD", "JUMP_BACKWARD"}

IsInstr(x) == x.k = "Instr"
IsOp(x, name) == x.k = "Instr" /\ x.op = name

(***************************************************************************)
(* Python list operations, 0-based.                                        *)
(***************************************************************************)
At(s, j) == s[j + 1]
DelAt(s, j) == SubSeq(s, 1, j) \o SubSeq(s, j + 2, Len(s))
InsAt(s, j, x) ==
    IF j >= Len(s) THEN Append(s, x)
    ELSE SubSeq(s, 1, j) \o <<x>> \o SubSeq(s, j + 1, Len(s))
SetAt(s, j, x) == [s EXCEPT ![j + 1] = x]
Max2(a, b) == IF a >= b THEN a ELSE b

(***************************************************************************)
(* The calling-convention normalizer (src/paxy/compiler/twelve.py).        *)
(***************************************************************************)
prev_instr_idx(seq, start) ==
    LET Last(cand) == IF cand = {} THEN None
                      ELSE CHOOSE j \in cand : \A m \in cand : m <= j
    IN Last({j \in 0..(start - 1) : IsInstr(At(seq, j))})

\* step 2: walk back over exactly nargs argument pushes, skipping PUSH_NULL
RECURSIVE BacktrackArgs(_, _, _)
BacktrackArgs(s, cursor, remaining) ==
    IF remaining = 0 THEN [cursor |-> cursor, remaining |-> remaining]
    ELSE LET Back(c) ==
                 IF c = None THEN [cursor |-> None, remaining |-> remaining]
                 ELSE IF IsOp(At(s, c), "PUSH_NULL") THEN BacktrackArgs(s, c, remaining)
                 ELSE BacktrackArgs(s, c, remaining - 1)
         IN Back(prev_instr_idx(s, cursor))

\* step 3: the callable is the previous instruction that is not a PUSH_NULL
RECURSIVE SkipNullsBack(_, _)
SkipNullsBack(s, ix) ==
    IF ix # None /\ IsOp(At(s, ix), "PUSH_NULL")
    THEN SkipNullsBack(s, prev_instr_idx(s, ix))
    ELSE ix

\* step 3a: LOAD_GLOBAL (True, name) becomes LOAD_GLOBAL (False, name)
NeutralizeFlag(ins) ==
    IF ins.op = "LOAD_GLOBAL" /\ ins.arg.t = "lg" /\ ins.arg.flag
    THEN [ins EXCEPT !.arg = LgArg(FALSE, ins.arg.s)]
    ELSE ins

\* step 3b: delete every PUSH_NULL strictly between the callable and the CALL
RECURSIVE RemoveNullsBetween(_, _, _)
RemoveNullsBetween(s, j, i) ==
    IF j < i
    THEN IF IsOp(At(s, j), "PUSH_NULL")
         THEN RemoveNullsBetween(DelAt(s, j), j, i - 1)
         ELSE RemoveNullsBetween(s, j + 1, i)
    ELSE [s |-> s, i |-> i]

HasImmediateNull(s, callable_ix) ==
    callable_ix - 1 >= 0 /\ IsOp(At(s, callable_ix - 1), "PUSH_NULL")

SameLineNulls(s, i, call_line) ==
    SelectSeq([j \in 1..i |-> j - 1],
              LAMBDA j : IsOp(At(s, j), "PUSH_NULL") /\ At(s, j).line = call_line)

\* step 4: "for extra in reversed(same_line_nulls[:-1]): del s[extra] ..."
RECURSIVE DropExtras(_, _, _, _)
DropExtras(s, extras, i, callable_ix) ==
    IF extras = <<>> THEN [s |-> s, i |-> i, callable_ix |-> callable_ix]
    ELSE LET extra == extras[Len(extras)]
         IN DropExtras(DelAt(s, extra), SubSeq(extras, 1, Len(extras) - 1),
                       IF extra < i THEN i - 1 ELSE i,
                       IF extra < callable_ix THEN callable_ix - 1 ELSE callable_ix)

\* step 4: "Move the kept one to sit right before the callable"; keep is the
\* index computed before the extras were deleted, exactly as in the code
MoveKept(s, keep, i, callable_ix) ==
    IF keep = callable_ix - 1
    THEN [s |-> s, i |-> i, callable_ix |-> callable_ix, err |-> FALSE]
    ELSE IF keep >= Len(s)
    THEN [s |-> s, i |-> i, callable_ix |-> callable_ix, err |-> TRUE]  \* IndexError
    ELSE LET node == At(s, keep)
             s1 == DelAt(s, keep)
             i1 == IF keep < i THEN i - 1 ELSE i
             c1 == IF keep < callable_ix THEN callable_ix - 1 ELSE callable_ix
             insert_at == Max2(c1, 0)
             s2 == InsAt(s1, insert_at, node)
             i2 == IF insert_at <= i1 THEN i1 + 1 ELSE i1
         IN [s |-> s2, i |-> i2, callable_ix |-> c1 + 1, err |-> FALSE]

SameLineCleanup(s, i, callable_ix, call_line) ==
    LET Move(keep, d) == MoveKept(d.s, keep, d.i, d.callable_ix)
        Cleanup(same_line_nulls) ==
            IF same_line_nulls = <<>>
            THEN [s |-> s, i |-> i, callable_ix |-> callable_ix, err |-> FALSE]
            ELSE Move(same_line_nulls[Len(same_line_nulls)],
                      DropExtras(s, SubSeq(same_line_nulls, 1, Len(same_line_nulls) - 1),
                                 i, callable_ix))
    IN Cleanup(SameLineNulls(s, i, call_line))

\* insert a PUSH_NULL at callable_ix (used by the lineno=None branch and by
\* the final "belt-and-braces" step)
InsertNull(s, i, callable_ix, ln) ==
    [s |-> InsAt(s, callable_ix, Instr("PUSH_NULL", NoArg, ln)),
     i |-> IF callable_ix <= i THEN i + 1 ELSE i,
     callable_ix |-> callable_ix + 1, err |-> FALSE]

\* steps 3a to the end of one iteration, for the CALL ins at i whose callable
\* callable_ins sits at callable_ix
NormalizeCallSite(s, i, ins, callable_ix, callable_ins) ==
    LET call_line == ins.line
        ln == IF callable_ins.line # NoLine THEN callable_ins.line ELSE call_line
        Step4(rb) ==
            IF call_line # NoLine
            THEN SameLineCleanup(rb.s, rb.i, callable_ix, call_line)
            ELSE IF ~HasImmediateNull(rb.s, callable_ix)
                 THEN InsertNull(rb.s, rb.i, callable_ix, callable_ins.line)
                 ELSE [s |-> rb.s, i |-> rb.i, callable_ix |-> callable_ix, err |-> FALSE]
        BeltAndBraces(st) ==
            IF st.err \/ HasImmediateNull(st.s, st.callable_ix) THEN st
            ELSE InsertNull(st.s, st.i, st.callable_ix, ln)
        Advance(st) == [s |-> st.s, i |-> st.i + 1, err |-> st.err]
    IN Advance(BeltAndBraces(Step4(
           RemoveNullsBetween(SetAt(s, callable_ix, NeutralizeFlag(callable_ins)),
                              callable_ix + 1, i))))

\* one iteration of the while loop with s[i] a CALL; returns the list and
\* the index the next iteration starts at
NormalizeCall(s, i) ==
    LET ins == At(s, i)
        skip == [s |-> s, i |-> i + 1, err |-> FALSE]
        Callable(callable_ix) ==
            IF callable_ix = None THEN skip
            ELSE NormalizeCallSite(s, i, ins, callable_ix, At(s, callable_ix))
        Args(bt) ==
            IF bt.cursor = None \/ bt.remaining # 0 THEN skip
            ELSE Callable(SkipNullsBack(s, prev_instr_idx(s, bt.cursor)))
    IN Args(BacktrackArgs(s, i, IF ins.arg.t = "int" THEN ins.arg.n ELSE 0))

RECURSIVE NormalizeFrom(_, _)
NormalizeFrom(s, i) ==
    IF i >= Len(s) THEN [s |-> s, err |-> FALSE]
    ELSE IF ~IsOp(At(s, i), "CALL") THEN NormalizeFrom(s, i + 1)
    ELSE LET Loop(r) == IF r.err THEN [s |-> r.s, err |-> TRUE]
                        ELSE NormalizeFrom(r.s, r.i)
         IN Loop(NormalizeCall(s, i))

normalize_push_null_for_calls_312_seq(seq, is313) ==
    IF is313 THEN [s |-> seq, err |-> FALSE] ELSE NormalizeFrom(seq, 0)

(***************************************************************************)
(* Python dicts are functions; the insertion order the code relies on is   *)
(* recovered from the recorded indices.                                    *)
(***************************************************************************)
EmptyDict == [n \in {} |-> 0]
DictPut(d, key, v) == [n \in DOMAIN d \cup {key} |-> IF n = key THEN v ELSE d[n]]

SyntaxError(msg, name, line) ==
    [type |-> "SyntaxError", msg |-> msg, name |-> name, line |-> line]
RuntimeError(msg) == [type |-> "RuntimeError", msg |-> msg, name |-> "", line |-> NoLine]
IndexError == [type |-> "IndexError", msg |-> "pop index out of range", name |-> "", line |-> NoLine]
NoError == [type |-> "none", msg |-> "", name |-> "", line |-> NoLine]

(***************************************************************************)
(* Pass 1a: Assembler._discover_declared_labels                            *)
(***************************************************************************)
RECURSIVE DiscoverFrom(_, _, _)
DiscoverFrom(items, idx, positions) ==
    IF idx >= Len(items) THEN [err |-> NoError, positions |-> positions]
    ELSE LET it == At(items, idx)
         IN IF it.k = "LabelDecl"
            THEN IF it.label_name \in DOMAIN positions
                 THEN [err |-> SyntaxError("Duplicate LBL", it.label_name, NoLine),
                       positions |-> positions]
                 ELSE DiscoverFrom(items, idx + 1, DictPut(positions, it.label_name, idx))
            ELSE DiscoverFrom(items, idx + 1, positions)

\* the discovery loop without its "if name in self.label_positions: raise":
\* a later declaration silently replaces the earlier one
discover_declared_labels_no_dup_check(items) ==
    LET decls == {j \in 0..(Len(items) - 1) : At(items, j).k = "LabelDecl"}
        names == {At(items, j).label_name : j \in decls}
    IN [err |-> NoError,
        positions |-> [n \in names |->
            CHOOSE j \in decls :
                /\ At(items, j).label_name = n
                /\ \A m \in decls : At(items, m).label_name = n => m <= j]]

discover_declared_labels(items) == DiscoverFrom(items, 0, EmptyDict)

(***************************************************************************)
(* Pass 1b: Assembler._build_label_objects.  One Label() per declared      *)
(* name, created in declaration order; a Label is its identity.            *)
(***************************************************************************)
build_label_objects(positions, firstId) ==
    [name \in DOMAIN positions |->
        firstId + Cardinality({m \in DOMAIN positions : positions[m] < positions[name]})]

(***************************************************************************)
(* Loop lowering: Assembler._emit_token_load_instrs and                    *)
(* Assembler._lower_rangeblock_to_stream                                   *)
(***************************************************************************)
lg(name, is313) == LgArg(is313, name)

emit_token_load_instrs(tok, lineno, in_function) ==
    IF tok.t = "ident"
    THEN IF in_function THEN <<Instr("LOAD_FAST", StrArg(tok.s), lineno)>>
         ELSE <<Instr("LOAD_NAME", StrArg(tok.s), lineno)>>
    ELSE <<Instr("LOAD_CONST", IntArg(tok.n), lineno)>>

DROP_NAMES == {"RESUME", "RETURN_VALUE", "RETURN_CONST"}

\* "3) Splice body": what the loop over it.body keeps
KeepInLoopBody(ins) ==
    ~(IsInstr(ins) /\ (ins.op \in DROP_NAMES
                       \/ (ins.op = "LOAD_CONST" /\ ins.arg.t = "int" /\ ins.arg.n = 0)))

lower_rangeblock_to_stream(it, in_function, is313, l_loop, l_end) ==
       <<Instr("PUSH_NULL", NoArg, it.line),
         Instr("LOAD_GLOBAL", lg("range", is313), it.line)>>
    \o emit_token_load_instrs(it.start, it.line, in_function)
    \o emit_token_load_instrs(it.end, it.line, in_function)
    \o <<Instr("CALL", IntArg(2), it.line),
         Instr("GET_ITER", NoArg, it.line),
         Label(l_loop),
         Instr("FOR_ITER", LblArg(l_end), it.line),
         Instr("STORE_NAME", StrArg(it.var), it.line)>>
    \o SelectSeq(it.body, KeepInLoopBody)
    \o <<Instr("JUMP_BACKWARD", LblArg(l_loop), it.line),
         Label(l_end),
         Instr("END_FOR", NoArg, it.line),
         Instr("POP_TOP", NoArg, it.line)>>

(***************************************************************************)
(* Pass 1c: Assembler._first_pass_rewrite                                  *)
(***************************************************************************)
TAG_JUMP == "__JUMP__"
TAG_CJUMP == "__CJUMP__"
TAG_UJUMP == "__UJUMP__"
TAG_NJUMP == "__NJUMP__"

RECURSIVE RewriteFrom(_, _, _, _, _, _, _)
RewriteFrom(items, idx, resolved, decl_map, label_objects, in_function, st) ==
    IF idx >= Len(items)
    THEN [resolved |-> resolved, decl_map |-> decl_map, nextLabel |-> st.nextLabel]
    ELSE LET it == At(items, idx)
             next(res, dm, nl) ==
                 RewriteFrom(items, idx + 1, res, dm, label_objects, in_function,
                             [st EXCEPT !.nextLabel = nl])
         IN CASE it.k = "LabelDecl" ->
                   next(Append(resolved, Label(label_objects[it.label_name])),
                        DictPut(decl_map, idx, Len(resolved)), st.nextLabel)
              [] it.k = "JumpRef" ->
                   next(Append(resolved, Placeholder(TAG_JUMP, "", it)),
                        decl_map, st.nextLabel)
              [] it.k = "NamedJump" ->
                   next(Append(resolved, Placeholder(TAG_NJUMP, it.opcode,
                                                     JumpRef(it.target_name, it.line))),
                        decl_map, st.nextLabel)
              [] it.k = "RangeBlock" ->
                   next(resolved \o lower_rangeblock_to_stream(it, in_function, st.is313,
                                                               st.nextLabel, st.nextLabel + 1),
                        decl_map, st.nextLabel + 2)
              [] it.k \in {"FuncDef", "ReturnMarker"} ->
                   next(Append(resolved, it), decl_map, st.nextLabel)
              [] it.k = "Instr" /\ it.op \in COND_JUMP_OPS /\ it.arg.t = "str" ->
                   next(Append(resolved, Placeholder(TAG_CJUMP, it.op,
                                                     JumpRef(it.arg.s, it.line))),
                        decl_map, st.nextLabel)
              [] it.k = "Instr" /\ it.op \in UNCOND_JUMP_FIXED /\ it.arg.t = "str" ->
                   next(Append(resolved, Placeholder(TAG_UJUMP, it.op,
                                                     JumpRef(it.arg.s, it.line))),
                        decl_map, st.nextLabel)
              [] OTHER -> next(Append(resolved, it), decl_map, st.nextLabel)

\* the rewritten stream, normalized (self._normalize_push_null_for_calls_312),
\* and the map recorded while rewriting
first_pass_rewrite(items, label_objects, in_function, is313, firstId) ==
    LET Finish(r, n) ==
            [resolved_stream |-> n.s, err |-> n.err,
             decl_idx_to_resolved_idx |-> r.decl_map, nextLabel |-> r.nextLabel]
        Normalize(r) ==
            Finish(r, normalize_push_null_for_calls_312_seq(r.resolved, is313))
    IN Normalize(RewriteFrom(items, 0, <<>>, EmptyDict, label_objects, in_function,
                             [nextLabel |-> firstId, is313 |-> is313]))

\* The stream holds the Instr objects of the input themselves ("resolved.
\* append(it)", "out.append(ins)"), and the normalizer works on a shallow copy
\* ("s = list(seq)"): an assignment to an Instr of the stream is an assignment
\* to that object of the input. Each Instr of the list and of its loop bodies
\* is marked with its place, the pass is run, and the input is read back.
MarkObject(it, place) ==
    [f \in DOMAIN it \cup {"obj"} |-> IF f = "obj" THEN place ELSE it[f]]

UnmarkObject(x) == [f \in DOMAIN x \ {"obj"} |-> x[f]]

RECURSIVE MarkObjects(_, _)
MarkObjects(items, path) ==
    [j \in 1..Len(items) |->
        CASE items[j].k = "Instr" -> MarkObject(items[j], Append(path, j))
          [] items[j].k = "RangeBlock" ->
               [items[j] EXCEPT !.body = MarkObjects(@, Append(path, j))]
          [] OTHER -> items[j]]

ObjectNow(it, place, stream) ==
    LET Found(at) == IF at = {} THEN it ELSE UnmarkObject(stream[CHOOSE m \in at : TRUE])
    IN Found({m \in 1..Len(stream) :
                 "obj" \in DOMAIN stream[m] /\ stream[m].obj = place})

RECURSIVE ObjectsNow(_, _, _)
ObjectsNow(items, path, stream) ==
    [j \in 1..Len(items) |->
        CASE items[j].k = "Instr" -> ObjectNow(items[j], Append(path, j), stream)
          [] items[j].k = "RangeBlock" ->
               [items[j] EXCEPT !.body = ObjectsNow(@, Append(path, j), stream)]
          [] OTHER -> items[j]]

\* self.items as _first_pass_rewrite leaves it
items_after_first_pass(items, label_objects, in_function, is313, firstId) ==
    ObjectsNow(items, <<>>,
               first_pass_rewrite(MarkObjects(items, <<>>), label_objects, in_function,
                                  is313, firstId).resolved_stream)

(***************************************************************************)
(* Pass 1d: Assembler._index_label_decls                                   *)
(***************************************************************************)
index_label_decls(items, decl_map) ==
    LET names == {At(items, d).label_name : d \in DOMAIN decl_map}
    IN [name \in names |->
          decl_map[CHOOSE d \in DOMAIN decl_map : At(items, d).label_name = name]]

(***************************************************************************)
(* Pass 2: Assembler._second_pass_patch_jumps                              *)
(***************************************************************************)
make_resolved_uncond_jump(pos, ref, label_objects, name_to_resolved_index) ==
    IF ref.target_name \notin DOMAIN name_to_resolved_index
    THEN [err |-> SyntaxError("GO to undefined LBL", ref.target_name, NoLine)]
    ELSE LET target_idx == name_to_resolved_index[ref.target_name]
             opcode == IF target_idx > pos THEN "JUMP_FORWARD" ELSE "JUMP_BACKWARD"
         IN [err |-> NoError,
             ins |-> Instr(opcode, LblArg(label_objects[ref.target_name]), ref.line)]

make_resolved_fixed_jump(opcode, ref, label_objects, name_to_resolved_index) ==
    IF ref.target_name \notin DOMAIN name_to_resolved_index
    THEN [err |-> SyntaxError("jump to undefined LBL", ref.target_name, NoLine)]
    ELSE [err |-> NoError,
          ins |-> Instr(opcode, LblArg(label_objects[ref.target_name]), ref.line)]

RECURSIVE PatchFrom(_, _, _, _, _)
PatchFrom(stream, pos, patched, label_objects, name_to_resolved_index) ==
    IF pos >= Len(stream) THEN [err |-> NoError, patched |-> patched]
    ELSE LET entry == At(stream, pos)
         IN IF entry.k = "Placeholder"
            THEN LET Emit(r) ==
                         IF r.err # NoError THEN [err |-> r.err, patched |-> patched]
                         ELSE PatchFrom(stream, pos + 1, Append(patched, r.ins),
                                        label_objects, name_to_resolved_index)
                 IN Emit(IF entry.tag = TAG_JUMP
                         THEN make_resolved_uncond_jump(pos, entry.ref, label_objects,
                                                        name_to_resolved_index)
                         ELSE make_resolved_fixed_jump(entry.opcode, entry.ref,
                                                       label_objects,
                                                       name_to_resolved_index))
            ELSE PatchFrom(stream, pos + 1, Append(patched, entry),
                           label_objects, name_to_resolved_index)

second_pass_patch_jumps(stream, label_objects, name_to_resolved_index) ==
    PatchFrom(stream, 0, <<>>, label_objects, name_to_resolved_index)

(***************************************************************************)
(* Pass 3: function and return lowering                                    *)
(***************************************************************************)
LocalStoreOps == {"STORE_NAME", "DELETE_NAME", "STORE_FAST", "DELETE_FAST"}
FastOps == {"LOAD_FAST", "STORE_FAST", "DELETE_FAST"}
\* the opcodes for which ins.name.endswith("_NAME")
EndsWithNAME == {"LOAD_NAME", "STORE_NAME", "DELETE_NAME", "IMPORT_NAME"}

SeqToSet(s) == {s[j] : j \in 1..Len(s)}

\* "1) discover locals"
local_names_of(lowered_body, params) ==
    SeqToSet(params) \cup
    {lowered_body[j].arg.s : j \in {m \in 1..Len(lowered_body) :
                                     /\ IsInstr(lowered_body[m])
                                     /\ lowered_body[m].op \in LocalStoreOps
                                     /\ lowered_body[m].arg.t = "str"}}

\* "2) rewrite", one instruction
rewrite_local_instr(ins, local_names, is313) ==
    IF ~IsInstr(ins) THEN ins
    ELSE IF ins.arg.t # "str" THEN ins
    ELSE CASE ins.op = "LOAD_NAME" ->
                IF ins.arg.s \in local_names
                THEN Instr("LOAD_FAST", StrArg(ins.arg.s), ins.line)
                ELSE Instr("LOAD_GLOBAL", lg(ins.arg.s, is313), ins.line)
           [] ins.op = "STORE_NAME" -> Instr("STORE_FAST", StrArg(ins.arg.s), ins.line)
           [] ins.op = "DELETE_NAME" -> Instr("DELETE_FAST", StrArg(ins.arg.s), ins.line)
           [] ins.op \in FastOps -> Instr(ins.op, StrArg(ins.arg.s), ins.line)
           [] OTHER -> ins

rewrite_locals_for_function(lowered_body, params, is313) ==
    LET Leftovers(out) ==
            {j \in 1..Len(out) : IsInstr(out[j]) /\ out[j].op \in EndsWithNAME}
        Check(out) ==
            [out |-> out,
             err |-> IF Leftovers(out) # {}
                     THEN RuntimeError("internal: NAME ops remain in optimized function after rewrite")
                     ELSE NoError]
        Rewrite(local_names) ==
            Check([j \in 1..Len(lowered_body) |->
                      rewrite_local_instr(lowered_body[j], local_names, is313)])
    IN Rewrite(local_names_of(lowered_body, params))

\* a _sanitize_function_body that removes nothing
sanitize_function_body_keep_all(body) == body

\* Assembler._sanitize_function_body: keep only the first RESUME
sanitize_function_body(body) ==
    LET First(resumes) ==
            IF resumes = {} THEN 0 ELSE CHOOSE j \in resumes : \A m \in resumes : j <= m
        Pick(keep) == [j \in 1..Len(keep) |-> body[keep[j]]]
        Keep(first) ==
            Pick(SelectSeq([j \in 1..Len(body) |-> j],
                           LAMBDA j : ~IsOp(body[j], "RESUME") \/ j = first))
    IN Keep(First({j \in 1..Len(body) : IsOp(body[j], "RESUME")}))

\* a _lower_funcdef that appends the default return whatever the body holds
lower_funcdef_always_default_return(func, inner_resolved, is313) ==
    LET maker == IF is313 THEN Instr("MAKE_FUNCTION", NoArg, func.line)
                 ELSE Instr("MAKE_FUNCTION", IntArg(0), func.line)
        Emit(err, lowered_body) ==
            [err |-> err,
             out |-> <<Instr("LOAD_CONST", CodeArg(lowered_body, func.params), func.line),
                       maker,
                       Instr("STORE_NAME", StrArg(func.name), func.line)>>]
        EnsureReturn(err, sane) ==
            Emit(err, sane \o <<Instr("LOAD_CONST", IntArg(0), func.line),
                                Instr("RETURN_VALUE", NoArg, func.line)>>)
        Sanitize(rw) == EnsureReturn(rw.err, sanitize_function_body(rw.out))
    IN Sanitize(rewrite_locals_for_function(inner_resolved, func.params, is313))

\* Assembler._lower_funcdef, from step 2 on: inner_resolved is what the
\* Assembler of the body returned
lower_funcdef(func, inner_resolved, is313) ==
    LET maker == IF is313 THEN Instr("MAKE_FUNCTION", NoArg, func.line)
                 ELSE Instr("MAKE_FUNCTION", IntArg(0), func.line)
        Emit(err, lowered_body) ==
            [err |-> err,
             out |-> <<Instr("LOAD_CONST", CodeArg(lowered_body, func.params), func.line),
                       maker,
                       Instr("STORE_NAME", StrArg(func.name), func.line)>>]
        EnsureReturn(err, sane) ==
            Emit(err,
                 IF \E j \in 1..Len(sane) : IsOp(sane[j], "RETURN_VALUE") THEN sane
                 ELSE sane \o <<Instr("LOAD_CONST", IntArg(0), func.line),
                                Instr("RETURN_VALUE", NoArg, func.line)>>)
        Sanitize(rw) == EnsureReturn(rw.err, sanitize_function_body(rw.out))
    IN Sanitize(rewrite_locals_for_function(inner_resolved, func.params, is313))

\* the loop of Assembler._lower_functions_and_returns, run from entry lpos
\* until it ends, raises, or reaches a FuncDef (whose body is resolved by a
\* new Assembler before the loop goes on)
RECURSIVE LowerFrom(_, _, _, _)
LowerFrom(patched, lpos, final, in_function) ==
    IF lpos >= Len(patched) THEN [kind |-> "end", lpos |-> lpos, final |-> final]
    ELSE LET entry == At(patched, lpos)
         IN CASE entry.k = "FuncDef" -> [kind |-> "call", lpos |-> lpos, final |-> final]
              [] entry.k = "ReturnMarker" ->
                   IF ~in_function
                   THEN [kind |-> "raise", lpos |-> lpos, final |-> final]
                   ELSE IF entry.has_value
                   THEN LowerFrom(patched, lpos + 1,
                                  Append(final, Instr("RETURN_VALUE", NoArg, entry.line)),
                                  in_function)
                   ELSE LowerFrom(patched, lpos + 1,
                                  final \o <<Instr("LOAD_CONST", IntArg(0), entry.line),
                                             Instr("RETURN_VALUE", NoArg, entry.line)>>,
                                  in_function)
              [] OTHER -> LowerFrom(patched, lpos + 1, Append(final, entry), in_function)

\* Assembler._sanity_check
sanity_check(final) ==
    LET Report(j) ==
            IF final[j].k = "Placeholder"
            THEN RuntimeError("unresolved jump placeholder")
            ELSE RuntimeError("jump still has non-Label arg")
        FirstOf(bad) ==
            IF bad = {} THEN NoError
            ELSE Report(CHOOSE m \in bad : \A n \in bad : m <= n)
    IN FirstOf({j \in 1..Len(final) :
                   \/ final[j].k = "Placeholder"
                   \/ /\ IsInstr(final[j])
                      /\ final[j].op \in (COND_JUMP_OPS \cup UNCOND_JUMP_FIXED)
                      /\ final[j].arg.t # "label"})

(***************************************************************************)
(* The Assembler instances.  resolve() of a function body runs inside      *)
(* _lower_funcdef of the enclosing instance, so the instances form a stack.*)
(***************************************************************************)
NewAssembler(items, in_function) ==
    [items |-> items, given |-> items, in_function |-> in_function, pc |-> "discover",
     label_positions |-> EmptyDict, label_objects |-> EmptyDict,
     resolved_stream |-> <<>>, decl_idx_to_resolved_idx |-> EmptyDict,
     name_to_resolved_index |-> EmptyDict, patched |-> <<>>, final |-> <<>>,
     lpos |-> 0]

Top == stack[Len(stack)]
WithTop(f) == [stack EXCEPT ![Len(stack)] = f]
Running == status = "running" /\ Len(stack) > 0

Raise(e) ==
    /\ status' = "error"
    /\ error' = e
    /\ UNCHANGED <<parser, scan, cache, coerce, cli, py313, nseq, nout1, nout2, nstage, stack, nextLabel, output>>

Continue(newStack, newNextLabel) ==
    /\ stack' = newStack
    /\ nextLabel' = newNextLabel
    /\ UNCHANGED <<parser, scan, cache, coerce, cli, py313, nseq, nout1, nout2, nstage, status, error, output>>

DiscoverDeclaredLabels ==
    /\ Running /\ Top.pc = "discover"
    /\ LET Done(r) ==
               IF r.err # NoError THEN Raise(r.err)
               ELSE Continue(WithTop([Top EXCEPT !.label_positions = r.positions,
                                                 !.pc = "build"]), nextLabel)
       IN Done(discover_declared_labels(Top.items))

BuildLabelObjects ==
    /\ Running /\ Top.pc = "build"
    /\ Continue(WithTop([Top EXCEPT
                           !.label_objects = build_label_objects(Top.label_positions, nextLabel),
                           !.pc = "rewrite"]),
                nextLabel + Cardinality(DOMAIN Top.label_positions))

FirstPassRewrite ==
    /\ Running /\ Top.pc = "rewrite"
    /\ LET Done(r, now) ==
               IF r.err
               THEN /\ stack' = WithTop([Top EXCEPT !.items = now])
                    /\ status' = "error"
                    /\ error' = IndexError
                    /\ UNCHANGED <<parser, scan, cache, coerce, cli, py313, nseq, nout1, nout2, nstage, nextLabel, output>>
               ELSE Continue(WithTop([Top EXCEPT
                                        !.items = now,
                                        !.resolved_stream = r.resolved_stream,
                                        !.decl_idx_to_resolved_idx = r.decl_idx_to_resolved_idx,
                                        !.pc = "index"]),
                             r.nextLabel)
       IN Done(first_pass_rewrite(Top.items, Top.label_objects, Top.in_function,
                                  py313, nextLabel),
               items_after_first_pass(Top.items, Top.label_objects, Top.in_function,
                                      py313, nextLabel))

IndexLabelDecls ==
    /\ Running /\ Top.pc = "index"
    /\ Continue(WithTop([Top EXCEPT
                           !.name_to_resolved_index =
                               index_label_decls(Top.items, Top.decl_idx_to_resolved_idx),
                           !.pc = "patch"]),
                nextLabel)

SecondPassPatchJumps ==
    /\ Running /\ Top.pc = "patch"
    /\ LET Done(r) ==
               IF r.err # NoError THEN Raise(r.err)
               ELSE Continue(WithTop([Top EXCEPT !.patched = r.patched, !.pc = "lower"]),
                             nextLabel)
       IN Done(second_pass_patch_jumps(Top.resolved_stream, Top.label_objects,
                                       Top.name_to_resolved_index))

\* runs the lowering loop up to the next FuncDef, whose body gets its own
\* Assembler(func.body, in_function=True)
LowerFunctionsAndReturns ==
    /\ Running /\ Top.pc = "lower"
    /\ LET Done(r, t) ==
               CASE r.kind = "raise" ->
                      Raise(SyntaxError("RET outside of SUB", "", NoLine))
                 [] r.kind = "call" ->
                      Continue(Append(WithTop(t),
                                      NewAssembler(At(Top.patched, r.lpos).body, TRUE)),
                               nextLabel)
                 [] OTHER -> Continue(WithTop([t EXCEPT !.pc = "sanity"]), nextLabel)
           Loop(r) == Done(r, [Top EXCEPT !.lpos = r.lpos, !.final = r.final])
       IN Loop(LowerFrom(Top.patched, Top.lpos, Top.final, Top.in_function))

SanityCheck ==
    /\ Running /\ Top.pc = "sanity"
    /\ LET Done(e) ==
               IF e # NoError THEN Raise(e)
               ELSE IF Len(stack) = 1
               THEN /\ stack' = WithTop([Top EXCEPT !.pc = "returned"])
                    /\ status' = "done"
                    /\ output' = Top.final
                    /\ UNCHANGED <<parser, scan, cache, coerce, cli, py313, nseq, nout1, nout2, nstage, nextLabel, error>>
               ELSE Continue(WithTop([Top EXCEPT !.pc = "returned"]), nextLabel)
       IN Done(sanity_check(Top.final))

\* the body's resolve() has returned: the rest of _lower_funcdef, and the
\* enclosing lowering loop moves past the FuncDef
LowerFuncdef ==
    /\ Running /\ Len(stack) > 1 /\ Top.pc = "returned"
    /\ LET Done(parent, r) ==
               IF r.err # NoError THEN Raise(r.err)
               ELSE Continue([j \in 1..(Len(stack) - 1) |->
                                 IF j = Len(stack) - 1
                                 THEN [parent EXCEPT !.final = @ \o r.out, !.lpos = @ + 1]
                                 ELSE stack[j]],
                             nextLabel)
           Lower(parent) ==
               Done(parent, lower_funcdef(At(parent.patched, parent.lpos), Top.final, py313))
       IN Lower(stack[Len(stack) - 1])

(***************************************************************************)
(* The IR lists handed to resolve(): what the parser can produce for       *)
(* LBL, GO, IFJ, RET, native opcode lines, RNG ... RNE and SUB ... SBE.    *)
(***************************************************************************)
SeqsUpTo(S, n) == UNION {[1..m -> S] : m \in 0..n}

FlatItems ==
    {LabelDecl("A", 1), LabelDecl("B", 1), JumpRef("A", 1), JumpRef("B", 1),
     NamedJump("POP_JUMP_IF_TRUE", "A", 1),
     Instr("LOAD_NAME", StrArg("f"), 1), Instr("CALL", IntArg(0), 1),
     Instr("PUSH_NULL", NoArg, 1)}

FlatInputs == SeqsUpTo(FlatItems, MaxFlat)

InnerLeaf ==
    {LabelDecl("A", 3), JumpRef("A", 3), ReturnMarker(FALSE, 3),
     Instr("LOAD_NAME", StrArg("n"), 3)}

BodyLeaf ==
    {LabelDecl("A", 2), JumpRef("A", 2), NamedJump("POP_JUMP_IF_TRUE", "A", 2),
     ReturnMarker(FALSE, 2),
     Instr("LOAD_NAME", StrArg("n"), 2), Instr("STORE_NAME", StrArg("n"), 2),
     Instr("LOAD_CONST", IntArg(0), 2), Instr("RESUME", IntArg(0), 2),
     Instr("RETURN_VALUE", NoArg, 2),
     Instr("JUMP_FORWARD", StrArg("A"), 2)}

InnerBodies == SeqsUpTo(InnerLeaf, MaxInner)

\* the blocks written inside a body
InnerBlocks ==
    {RangeBlock("j", ConstTok(1), IdentTok("n"), b, 2) : b \in InnerBodies}
    \cup {FuncDef("g", <<>>, b, 2) : b \in InnerBodies}

\* a loop written inside a body whose own body is a function
DeepBlocks ==
    {RangeBlock("j", ConstTok(1), IdentTok("n"), <<FuncDef("g", <<>>, b, 3)>>, 2)
        : b \in InnerBodies}

\* bodies of plain lines
LeafBodies == SeqsUpTo(BodyLeaf, MaxBody)

\* bodies with a block inside: the block alone, or next to one plain line
NestBodies ==
    {b \in {<<blk>> : blk \in InnerBlocks \cup DeepBlocks}
           \cup {<<leaf, blk>> : leaf \in BodyLeaf, blk \in InnerBlocks}
           \cup {<<blk, leaf>> : leaf \in BodyLeaf, blk \in InnerBlocks}
       : Len(b) <= MaxBody}

Bodies == LeafBodies \cup NestBodies

Blocks ==
    {RangeBlock("i", ConstTok(1), IdentTok("n"), b, 1) : b \in Bodies}
    \cup {FuncDef("f", <<"p">>, b, 1) : b \in Bodies}

Prefixes == {<<>>, <<LabelDecl("A", 1)>>}
Suffixes == {<<>>, <<JumpRef("A", 4)>>, <<ReturnMarker(FALSE, 4)>>}

NestedInputs == {pre \o <<blk>> \o post : pre \in Prefixes, blk \in Blocks, post \in Suffixes}

\* lists with a call of a global loaded with the sentinel flag, as the
\* commands emit it (LOAD_GLOBAL (True, name); ...; CALL n)
CallItems ==
    {Instr("LOAD_GLOBAL", LgArg(TRUE, "f"), 1), Instr("CALL", IntArg(0), 1),
     Instr("PUSH_NULL", NoArg, 1), LabelDecl("A", 1)}

CallInputs ==
    SeqsUpTo(CallItems, MaxCall)
    \cup {<<RangeBlock("i", ConstTok(1), IdentTok("n"), b, 1)>>
             : b \in SeqsUpTo(CallItems \ {LabelDecl("A", 1)}, MaxCall - 1)}

Inputs == FlatInputs \cup NestedInputs \cup CallInputs

(***************************************************************************)
(* The operator resolver (src/paxy/compiler/opcoerce.py).  A Python str is *)
(* the sequence of its characters; an enum member has its class, its name  *)
(* and its integer value.  BinaryOp and Compare are the enums of the       *)
(* bytecode library, with the member names the symbol maps refer to.       *)
(***************************************************************************)
PyStr(chars) == [t |-> "str", chars |-> chars]
PyInt(n) == [t |-> "int", n |-> n]
PyBool(b) == [t |-> "bool", n |-> IF b THEN 1 ELSE 0]
PyFloat == [t |-> "float"]
PyNone == [t |-> "NoneType"]
EnumMember(cls, name, value) == [t |-> "enum", cls |-> cls, name |-> name, n |-> value]

\* isinstance(arg, int): int, its subclass bool, and the members of the
\* integer enums
IsInt(arg) == arg.t \in {"int", "bool", "enum"}

BinaryOp ==
    {EnumMember("BinaryOp", <<"A", "D", "D">>, 0),
     EnumMember("BinaryOp", <<"A", "N", "D">>, 1),
     EnumMember("BinaryOp", <<"F", "L", "O", "O", "R", "_", "D", "I", "V", "I", "D", "E">>, 2),
     EnumMember("BinaryOp", <<"L", "S", "H", "I", "F", "T">>, 3),
     EnumMember("BinaryOp", <<"M", "A", "T", "R", "I", "X", "_", "M", "U", "L", "T", "I", "P", "L", "Y">>, 4),
     EnumMember("BinaryOp", <<"M", "U", "L", "T", "I", "P", "L", "Y">>, 5),
     EnumMember("BinaryOp", <<"R", "E", "M", "A", "I", "N", "D", "E", "R">>, 6),
     EnumMember("BinaryOp", <<"O", "R">>, 7),
     EnumMember("BinaryOp", <<"P", "O", "W", "E", "R">>, 8),
     EnumMember("BinaryOp", <<"R", "S", "H", "I", "F", "T">>, 9),
     EnumMember("BinaryOp", <<"S", "U", "B", "T", "R", "A", "C", "T">>, 10),
     EnumMember("BinaryOp", <<"T", "R", "U", "E", "_", "D", "I", "V", "I", "D", "E">>, 11),
     EnumMember("BinaryOp", <<"X", "O", "R">>, 12)}

Compare ==
    {EnumMember("Compare", <<"L", "T">>, 0),
     EnumMember("Compare", <<"L", "E">>, 1),
     EnumMember("Compare", <<"E", "Q">>, 2),
     EnumMember("Compare", <<"N", "E">>, 3),
     EnumMember("Compare", <<"G", "T">>, 4),
     EnumMember("Compare", <<"G", "E">>, 5)}

IsOpEnum ==
    {EnumMember("IsOp", <<"I", "S">>, 0),
     EnumMember("IsOp", <<"I", "S", "_", "N", "O", "T">>, 1)}

ContainsOp ==
    {EnumMember("ContainsOp", <<"I", "N">>, 0),
     EnumMember("ContainsOp", <<"N", "O", "T", "_", "I", "N">>, 1)}

BINARY_SYMBOL_MAP ==
    (<<"+">> :> <<"A", "D", "D">>)
    @@ (<<"-">> :> <<"S", "U", "B", "T", "R", "A", "C", "T">>)
    @@ (<<"*">> :> <<"M", "U", "L", "T", "I", "P", "L", "Y">>)
    @@ (<<"/">> :> <<"T", "R", "U", "E", "_", "D", "I", "V", "I", "D", "E">>)
    @@ (<<"/", "/">> :> <<"F", "L", "O", "O", "R", "_", "D", "I", "V", "I", "D", "E">>)
    @@ (<<"%">> :> <<"R", "E", "M", "A", "I", "N", "D", "E", "R">>)
    @@ (<<"*", "*">> :> <<"P", "O", "W", "E", "R">>)
    @@ (<<"<", "<">> :> <<"L", "S", "H", "I", "F", "T">>)
    @@ (<<">", ">">> :> <<"R", "S", "H", "I", "F", "T">>)
    @@ (<<"|">> :> <<"O", "R">>)
    @@ (<<"&">> :> <<"A", "N", "D">>)
    @@ (<<"^">> :> <<"X", "O", "R">>)
    @@ (<<"@">> :> <<"M", "A", "T", "R", "I", "X", "_", "M", "U", "L", "T", "I", "P", "L", "Y">>)

COMPARE_SYMBOL_MAP ==
    (<<"=", "=">> :> <<"E", "Q">>)
    @@ (<<"!", "=">> :> <<"N", "E">>)
    @@ (<<"<">> :> <<"L", "T">>)
    @@ (<<"<", "=">> :> <<"L", "E">>)
    @@ (<<">">> :> <<"G", "T">>)
    @@ (<<">", "=">> :> <<"G", "E">>)

IS_SYMBOL_MAP ==
    (<<"i", "s">> :> <<"I", "S">>)
    @@ (<<"i", "s", " ", "n", "o", "t">> :> <<"I", "S", "_", "N", "O", "T">>)

CONTAINS_SYMBOL_MAP ==
    (<<"i", "n">> :> <<"I", "N">>)
    @@ (<<"n", "o", "t", " ", "i", "n">> :> <<"N", "O", "T", "_", "I", "N">>)

\* str.upper() on the characters the spellings use
ToUpper ==
    ("a" :> "A") @@ ("b" :> "B") @@ ("c" :> "C") @@ ("d" :> "D") @@ ("e" :> "E") @@ ("f" :> "F")
    @@ ("g" :> "G") @@ ("h" :> "H") @@ ("i" :> "I") @@ ("j" :> "J") @@ ("k" :> "K") @@ ("l" :> "L")
    @@ ("m" :> "M") @@ ("n" :> "N") @@ ("o" :> "O") @@ ("p" :> "P") @@ ("q" :> "Q") @@ ("r" :> "R")
    @@ ("s" :> "S") @@ ("t" :> "T") @@ ("u" :> "U") @@ ("v" :> "V") @@ ("w" :> "W") @@ ("x" :> "X")
    @@ ("y" :> "Y") @@ ("z" :> "Z")

upper(chars) ==
    [j \in 1..Len(chars) |-> IF chars[j] \in DOMAIN ToUpper THEN ToUpper[chars[j]]
                              ELSE chars[j]]

\* dict.get(key, default)
DictGet(map, key, default) == IF key \in DOMAIN map THEN map[key] ELSE default

\* what a coerce_* call gives: the member returned, or the SyntaxError raised;
\* of its message: the family name written in it, the rest of its text, and
\* the values it shows
Returns(member) == [ok |-> TRUE, value |-> member]
Raises(family, msg, shown) ==
    [ok |-> FALSE, type |-> "SyntaxError", family |-> family, msg |-> msg,
     shown |-> shown]

\* Enum[name] and Enum(value)
ByName(cls, name) == {m \in cls : m.name = name}
ByValue(cls, n) == {m \in cls : m.n = n}

\* the body of a coerce_* function without str.upper()
coerce_enum_case_sensitive(cls, symbol_map, family, arg) ==
    LET Lookup(found, msg, shown) ==
            IF found = {} THEN Raises(family, msg, shown)
            ELSE Returns(CHOOSE m \in found : TRUE)
        Named(name) ==
            Lookup(ByName(cls, name), "Unknown name/symbol", <<PyStr(name), arg>>)
    IN IF arg \in cls THEN Returns(arg)
       ELSE IF arg.t = "str" THEN Named(DictGet(symbol_map, arg.chars, arg.chars))
       ELSE IF IsInt(arg)
       THEN Lookup(ByValue(cls, arg.n), "Invalid code", <<arg>>)
       ELSE Raises(family, "expects a symbol/name or int", <<>>)

\* the body the four coerce_* functions share, for the enum cls, its symbol
\* map and the family name of its messages
coerce_enum(cls, symbol_map, family, arg) ==
    LET Lookup(found, msg, shown) ==
            IF found = {} THEN Raises(family, msg, shown)
            ELSE Returns(CHOOSE m \in found : TRUE)
        Named(name) ==
            Lookup(ByName(cls, name), "Unknown name/symbol", <<PyStr(name), arg>>)
    IN IF arg \in cls THEN Returns(arg)
       ELSE IF arg.t = "str" THEN Named(upper(DictGet(symbol_map, arg.chars, arg.chars)))
       ELSE IF IsInt(arg)
       THEN Lookup(ByValue(cls, arg.n), "Invalid code", <<arg>>)
       ELSE Raises(family, "expects a symbol/name or int", <<>>)

coerce_binary_op(arg) == coerce_enum(BinaryOp, BINARY_SYMBOL_MAP, "BINARY_OP", arg)
coerce_compare_op(arg) == coerce_enum(Compare, COMPARE_SYMBOL_MAP, "COMPARE_OP", arg)
coerce_is_op(arg) == coerce_enum(IsOpEnum, IS_SYMBOL_MAP, "IS_OP", arg)
coerce_contains_op(arg) == coerce_enum(ContainsOp, CONTAINS_SYMBOL_MAP, "CONTAINS_OP", arg)

(***************************************************************************)
(* The specification of resolve().                                         *)
(***************************************************************************)
\* the normalizer harness has not run
NotRun == [s |-> <<>>, err |-> FALSE]
\* the resolver harness and the command line are not in use
OpIdle == [stage |-> 0]
CliIdle == [pc |-> "idle"]
ScanIdle == [pc |-> "idle"]
CacheIdle == [pc |-> "idle"]
ParserIdle == [pc |-> "idle"]

Init ==
    /\ py313 \in BOOLEAN
    /\ \E items \in Inputs : stack = <<NewAssembler(items, FALSE)>>
    /\ nextLabel = 1
    /\ status = "running"
    /\ error = NoError
    /\ output = <<>>
    /\ nseq = <<>> /\ nout1 = NotRun /\ nout2 = NotRun /\ nstage = 0
    /\ coerce = OpIdle /\ cli = CliIdle /\ scan = ScanIdle /\ cache = CacheIdle /\ parser = ParserIdle

Next ==
    \/ DiscoverDeclaredLabels
    \/ BuildLabelObjects
    \/ FirstPassRewrite
    \/ IndexLabelDecls
    \/ SecondPassPatchJumps
    \/ LowerFunctionsAndReturns
    \/ LowerFuncdef
    \/ SanityCheck

Spec == Init /\ [][Next]_vars

(***************************************************************************)
(* The normalizer on its own: a flat stream is normalized, and the result  *)
(* is normalized again.                                                    *)
(***************************************************************************)
NormItems ==
    {Instr("PUSH_NULL", NoArg, 1), Instr("PUSH_NULL", NoArg, 2),
     Instr("LOAD_NAME", StrArg("f"), 1), Instr("LOAD_GLOBAL", LgArg(TRUE, "g"), 2),
     Instr("CALL", IntArg(0), 1), Instr("CALL", IntArg(1), 2),
     Instr("CALL", IntArg(0), NoLine), Label(0)}

\* a call on one line behind a run of sentinels
SentinelRuns ==
    {[m \in 1..n |-> Instr("PUSH_NULL", NoArg, 1)]
        \o <<Instr("LOAD_NAME", StrArg("f"), 1), Instr("CALL", IntArg(0), 1)>>
        : n \in 0..MaxNorm}

NormInputs == SeqsUpTo(NormItems, MaxNorm) \cup SentinelRuns

NormInit ==
    /\ py313 \in BOOLEAN
    /\ nseq \in NormInputs
    /\ nout1 = NotRun /\ nout2 = NotRun /\ nstage = 0
    /\ stack = <<>> /\ nextLabel = 1 /\ status = "idle"
    /\ error = NoError /\ output = <<>>
    /\ coerce = OpIdle /\ cli = CliIdle /\ scan = ScanIdle /\ cache = CacheIdle /\ parser = ParserIdle

NormalizeOnce ==
    /\ status = "idle" /\ nstage = 0
    /\ nout1' = normalize_push_null_for_calls_312_seq(nseq, py313)
    /\ nstage' = 1
    /\ UNCHANGED <<parser, scan, cache, coerce, cli, py313, nseq, nout2, stack, nextLabel, status, error, output>>

NormalizeAgain ==
    /\ status = "idle" /\ nstage = 1 /\ ~nout1.err
    /\ nout2' = normalize_push_null_for_calls_312_seq(nout1.s, py313)
    /\ nstage' = 2
    /\ UNCHANGED <<parser, scan, cache, coerce, cli, py313, nseq, nout1, stack, nextLabel, status, error, output>>

NormNext == NormalizeOnce \/ NormalizeAgain

SpecNorm == NormInit /\ [][NormNext]_vars

(***************************************************************************)
(* The normalizer's while loop (twelve.py 41-173), one iteration per step. *)
(* Every Instr of the input carries its position in the input as its       *)
(* identity, so that a CALL can be followed through deletions and          *)
(* insertions; done lists the CALLs the loop has processed.                *)
(***************************************************************************)
MarkPositions(seq) ==
    [j \in 1..Len(seq) |-> IF IsInstr(seq[j]) THEN MarkObject(seq[j], j) ELSE seq[j]]

ScanInit ==
    /\ py313 \in BOOLEAN
    /\ nseq \in NormInputs
    /\ scan = [pc |-> "called"]
    /\ nout1 = NotRun /\ nout2 = NotRun /\ nstage = 0
    /\ stack = <<>> /\ nextLabel = 1 /\ status = "idle"
    /\ error = NoError /\ output = <<>>
    /\ coerce = OpIdle /\ cli = CliIdle /\ cache = CacheIdle /\ parser = ParserIdle

ScanStep(next) ==
    /\ scan' = next
    /\ UNCHANGED <<parser, cache, coerce, cli, py313, nseq, nout1, nout2, nstage, stack, nextLabel,
                   status, error, output>>

\* "if sys.version_info >= (3, 13): return list(seq)"; "s = list(seq); i = 0"
ScanEnter ==
    /\ scan.pc = "called"
    /\ ScanStep([pc |-> IF py313 THEN "returned" ELSE "scanning",
                 s |-> MarkPositions(nseq), i |-> 0, done |-> <<>>])

\* "if not isinstance(ins, Instr) or ins.name != "CALL": i += 1; continue"
ScanPass ==
    /\ scan.pc = "scanning" /\ scan.i < Len(scan.s)
    /\ ~IsOp(At(scan.s, scan.i), "CALL")
    /\ ScanStep([scan EXCEPT !.i = @ + 1])

\* the rest of the loop body, for a CALL
ScanCall ==
    /\ scan.pc = "scanning" /\ scan.i < Len(scan.s)
    /\ IsOp(At(scan.s, scan.i), "CALL")
    /\ LET Done(r) ==
               ScanStep([pc |-> IF r.err THEN "raised" ELSE "scanning",
                         s |-> r.s, i |-> r.i,
                         done |-> Append(scan.done, At(scan.s, scan.i).obj)])
       IN Done(NormalizeCall(scan.s, scan.i))

\* "while i < len(s)" is false: "return s"
ScanReturn ==
    /\ scan.pc = "scanning" /\ scan.i >= Len(scan.s)
    /\ ScanStep([scan EXCEPT !.pc = "returned"])

ScanNext == ScanEnter \/ ScanPass \/ ScanCall \/ ScanReturn

SpecScan == ScanInit /\ [][ScanNext]_vars

(***************************************************************************)
(* The operator resolver on its own: one coerce_* function is called with  *)
(* an argument, and again with what it returned.                           *)
(***************************************************************************)
FAMILIES == {"BINARY_OP", "COMPARE_OP", "IS_OP", "CONTAINS_OP"}

ClassOf(family) ==
    CASE family = "BINARY_OP" -> BinaryOp
      [] family = "COMPARE_OP" -> Compare
      [] family = "IS_OP" -> IsOpEnum
      [] family = "CONTAINS_OP" -> ContainsOp

SymbolMapOf(family) ==
    CASE family = "BINARY_OP" -> BINARY_SYMBOL_MAP
      [] family = "COMPARE_OP" -> COMPARE_SYMBOL_MAP
      [] family = "IS_OP" -> IS_SYMBOL_MAP
      [] family = "CONTAINS_OP" -> CONTAINS_SYMBOL_MAP

Coerce(family, arg) ==
    CASE family = "BINARY_OP" -> coerce_binary_op(arg)
      [] family = "COMPARE_OP" -> coerce_compare_op(arg)
      [] family = "IS_OP" -> coerce_is_op(arg)
      [] family = "CONTAINS_OP" -> coerce_contains_op(arg)

\* a name in lower case and in alternating case ("mUlTiPlY")
lower(chars) ==
    [j \in 1..Len(chars) |->
        IF \E c \in DOMAIN ToUpper : ToUpper[c] = chars[j]
        THEN CHOOSE c \in DOMAIN ToUpper : ToUpper[c] = chars[j]
        ELSE chars[j]]

Alternate(chars) ==
    [j \in 1..Len(chars) |-> IF j % 2 = 1 THEN lower(chars)[j] ELSE upper(chars)[j]]

AllMembers == BinaryOp \cup Compare \cup IsOpEnum \cup ContainsOp

AllSymbols ==
    DOMAIN BINARY_SYMBOL_MAP \cup DOMAIN COMPARE_SYMBOL_MAP
    \cup DOMAIN IS_SYMBOL_MAP \cup DOMAIN CONTAINS_SYMBOL_MAP

\* the arguments tried: every member, every symbol, every member name in three
\* letter cases, strings that spell nothing, integers, booleans, a float, None
OpArgs ==
    AllMembers
    \cup {PyStr(sym) : sym \in AllSymbols}
    \cup {PyStr(m.name) : m \in AllMembers}
    \cup {PyStr(lower(m.name)) : m \in AllMembers}
    \cup {PyStr(Alternate(m.name)) : m \in AllMembers}
    \cup {PyStr(<<"X">>), PyStr(<<"I", "S", " ", "N", "O", "T">>), PyStr(<<>>)}
    \cup {PyInt(n) : n \in -1..MaxCode}
    \cup {PyBool(TRUE), PyBool(FALSE), PyFloat, PyNone}

NotCoerced == [ok |-> FALSE, type |-> "none"]

CoerceInit ==
    /\ \E family \in FAMILIES, arg \in OpArgs :
          coerce = [family |-> family, arg |-> arg, stage |-> 0,
                    out1 |-> NotCoerced, out2 |-> NotCoerced]
    /\ py313 = FALSE
    /\ nseq = <<>> /\ nout1 = NotRun /\ nout2 = NotRun /\ nstage = 0
    /\ stack = <<>> /\ nextLabel = 1 /\ status = "idle"
    /\ error = NoError /\ output = <<>>
    /\ cli = CliIdle /\ scan = ScanIdle /\ cache = CacheIdle /\ parser = ParserIdle

CoerceOnce ==
    /\ status = "idle" /\ coerce # OpIdle /\ coerce.stage = 0
    /\ coerce' = [coerce EXCEPT !.out1 = Coerce(coerce.family, coerce.arg), !.stage = 1]
    /\ UNCHANGED <<parser, scan, cache, cli, py313, nseq, nout1, nout2, nstage, stack, nextLabel, status,
                   error, output>>

CoerceAgain ==
    /\ status = "idle" /\ coerce # OpIdle /\ coerce.stage = 1 /\ coerce.out1.ok
    /\ coerce' = [coerce EXCEPT !.out2 = Coerce(coerce.family, coerce.out1.value),
                                !.stage = 2]
    /\ UNCHANGED <<parser, scan, cache, cli, py313, nseq, nout1, nout2, nstage, stack, nextLabel, status,
                   error, output>>

CoerceNext == CoerceOnce \/ CoerceAgain

SpecCoerce == CoerceInit /\ [][CoerceNext]_vars

(***************************************************************************)
(* The command-line entry point (src/paxy/cli.py, main).  A path is its    *)
(* directory components and the dot-separated pieces of its file name; a   *)
(* pathlib.Path and the str of the same path are different values.  cli    *)
(* holds the command line, the file system main() looks at, the position   *)
(* of main(), and the calls of compile_file and run_pyc in order.          *)
(***************************************************************************)
PathStr(dir, name) == [t |-> "str", dir |-> dir, name |-> name]
Path(x) == [t |-> "Path", dir |-> x.dir, name |-> x.name]
str(path) == [t |-> "str", dir |-> path.dir, name |-> path.name]

NoOpt == 0      \* -O not given: args.optlevel is None
cache_tag == "cpython-312"

\* PaxyCompiler.output_path_for
output_path_for(src, optimization, py_sibling_exists) ==
    LET base == SubSeq(src.name, 1, Len(src.name) - 1)
        opt == IF optimization # NoOpt
               THEN <<IF optimization = 1 THEN "opt-1" ELSE "opt-2">> ELSE <<>>
    IN IF py_sibling_exists
       THEN [t |-> "Path", dir |-> Append(src.dir, "__pycache__"),
             name |-> base \o <<cache_tag>> \o opt \o <<"pyc">>]
       ELSE [t |-> "Path", dir |-> src.dir, name |-> base \o <<"pyc">>]

\* "if not args.compile_only:" with the run made whatever -c says
should_run_always(args) == TRUE

\* "if not args.compile_only:"
should_run(args) == ~args.compile_only

Called(fn, arg, optimization) ==
    [ev |-> "call", fn |-> fn, arg |-> arg, optimization |-> optimization]
ReturnedFrom(fn, value) == [ev |-> "return", fn |-> fn, value |-> value]

Sources == {PathStr(<<>>, <<"hello", "paxy">>), PathStr(<<"t">>, <<"prog", "v2", "paxy">>)}

\* -O takes 1 or 2; argparse refuses anything else
OptLevels == {NoOpt} \cup 1..MaxOpt

CliInit ==
    /\ \E source \in Sources, compile_only \in BOOLEAN, optlevel \in OptLevels,
          verbose \in BOOLEAN, src_exists \in BOOLEAN, py_sibling_exists \in BOOLEAN :
          cli = [pc |-> "parse_args",
                 argv |-> [source |-> source, compile_only |-> compile_only,
                           optlevel |-> optlevel, verbose |-> verbose],
                 src_exists |-> src_exists, py_sibling_exists |-> py_sibling_exists,
                 pyc_path |-> <<>>, calls |-> <<>>, printed |-> <<>>, exit |-> <<>>]
    /\ coerce = OpIdle /\ scan = ScanIdle /\ cache = CacheIdle /\ parser = ParserIdle
    /\ py313 = FALSE
    /\ nseq = <<>> /\ nout1 = NotRun /\ nout2 = NotRun /\ nstage = 0
    /\ stack = <<>> /\ nextLabel = 1 /\ status = "idle"
    /\ error = NoError /\ output = <<>>

CliStep(next) ==
    /\ cli' = next
    /\ UNCHANGED <<parser, scan, cache, coerce, py313, nseq, nout1, nout2, nstage, stack, nextLabel, status,
                   error, output>>

Say(text) == IF cli.argv.verbose THEN Append(cli.printed, text) ELSE cli.printed

\* parser.parse_args(): -O outside choices=(1, 2) ends the process
ParseArgs ==
    /\ cli # CliIdle /\ cli.pc = "parse_args"
    /\ IF cli.argv.optlevel \in {NoOpt, 1, 2}
       THEN CliStep([cli EXCEPT !.pc = "check_source"])
       ELSE CliStep([cli EXCEPT !.pc = "exited", !.exit = <<"usage">>])

\* "if not os.path.exists(src): sys.exit(...)"
CheckSource ==
    /\ cli # CliIdle /\ cli.pc = "check_source"
    /\ IF ~cli.src_exists
       THEN CliStep([cli EXCEPT !.pc = "exited",
                                !.exit = <<"error: source file not found",
                                           cli.argv.source>>])
       ELSE CliStep([cli EXCEPT !.pc = "compile"])

\* compiler.compile_file(src, optimization=args.optlevel) is entered
CallCompile ==
    /\ cli # CliIdle /\ cli.pc = "compile"
    /\ CliStep([cli EXCEPT
                  !.pc = "in_compile",
                  !.printed = Say("compiling"),
                  !.calls = Append(@, Called("compile_file", cli.argv.source,
                                             cli.argv.optlevel))])

\* compile_file returns dest_p; main() goes on to the run or ends
CompileReturns ==
    /\ cli # CliIdle /\ cli.pc = "in_compile"
    /\ LET Go(dest_p) ==
               CliStep([cli EXCEPT
                          !.pc = IF should_run(cli.argv) THEN "run" ELSE "done",
                          !.pyc_path = dest_p,
                          !.printed = Say("wrote"),
                          !.calls = Append(@, ReturnedFrom("compile_file", dest_p))])
       IN Go(output_path_for(Path(cli.argv.source), cli.argv.optlevel,
                             cli.py_sibling_exists))

\* compile_file raises PaxyCompileError: main() ends with the exception
CompileRaises ==
    /\ cli # CliIdle /\ cli.pc = "in_compile"
    /\ CliStep([cli EXCEPT !.pc = "raised", !.exit = <<"PaxyCompileError">>])

\* compiler.run_pyc(str(pyc_path)) is entered
CallRun ==
    /\ cli # CliIdle /\ cli.pc = "run"
    /\ CliStep([cli EXCEPT
                  !.pc = "in_run",
                  !.printed = Say("running"),
                  !.calls = Append(@, Called("run_pyc", str(cli.pyc_path), NoOpt))])

RunReturns ==
    /\ cli # CliIdle /\ cli.pc = "in_run"
    /\ CliStep([cli EXCEPT !.pc = "done", !.printed = Say("done"),
                           !.calls = Append(@, ReturnedFrom("run_pyc", <<>>))])

\* the program run raises: main() ends with the exception
RunRaises ==
    /\ cli # CliIdle /\ cli.pc = "in_run"
    /\ CliStep([cli EXCEPT !.pc = "raised", !.exit = <<"exception of the program">>])

CliNext ==
    \/ ParseArgs
    \/ CheckSource
    \/ CallCompile
    \/ CompileReturns
    \/ CompileRaises
    \/ CallRun
    \/ RunReturns
    \/ RunRaises

SpecCli == CliInit /\ [][CliNext]_vars

(***************************************************************************)
(* The parser (src/paxy/compiler/parser.py).  The token stream is what     *)
(* tokenize gives for a source of unindented lines: the tokens of each     *)
(* line with its line number, a NEWLINE after each line, an ENDMARKER at   *)
(* the end.  A token string, an identifier and an operator are sequences   *)
(* of characters.                                                          *)
(***************************************************************************)
Tok(type, string, line) == [type |-> type, string |-> string, line |-> line]

ALLOWED_OPS ==
    {<<"+">>, <<"-">>, <<"*">>, <<"/">>, <<"%">>, <<"/", "/">>, <<"*", "*">>,
     <<"=", "=">>, <<"!", "=">>, <<"<">>, <<"<", "=">>, <<">">>, <<">", "=">>,
     <<"|">>, <<"&">>, <<"^">>, <<"<", "<">>, <<">", ">">>}

S_RNG == <<"R", "N", "G">>
S_RNE == <<"R", "N", "E">>
S_SUB == <<"S", "U", "B">>
S_SBE == <<"S", "B", "E">>
S_LET == <<"L", "E", "T">>
S_NOP == <<"N", "O", "P">>

\* dis.opmap, for the opcodes the sources use: spelling to opcode name
opmap ==
    (S_NOP :> "NOP") @@ (<<"P", "O", "P", "_", "T", "O", "P">> :> "POP_TOP")

\* paxy.commands, for the commands the sources use: the registry, and the
\* names a line may start with
CORE_COMMANDS == {S_LET}
is_command(op) == op \in CORE_COMMANDS
is_command_name(op) == op \in CORE_COMMANDS \cup DOMAIN opmap \cup {S_RNG, S_SUB}

\* int(text, 0) for decimal digits, and str() of a small int
DigitValue ==
    ("0" :> 0) @@ ("1" :> 1) @@ ("2" :> 2) @@ ("3" :> 3) @@ ("4" :> 4)
    @@ ("5" :> 5) @@ ("6" :> 6) @@ ("7" :> 7) @@ ("8" :> 8) @@ ("9" :> 9)

RECURSIVE IntOfText(_)
IntOfText(text) ==
    IF text = <<>> THEN 0
    ELSE 10 * IntOfText(SubSeq(text, 1, Len(text) - 1)) + DigitValue[text[Len(text)]]

RECURSIVE TextOfInt(_)
TextOfInt(n) ==
    IF n < 0 THEN <<"-">> \o TextOfInt(0 - n)
    ELSE IF n < 10 THEN <<CHOOSE d \in DOMAIN DigitValue : DigitValue[d] = n>>
    ELSE TextOfInt(n \div 10) \o TextOfInt(n % 10)

\* Parser._parse_number
parse_number(text, sign) == PyInt(sign * IntOfText(text))

\* class LineState
LineState(current_op, current_args, current_op_lineno, pending_sign) ==
    [current_op |-> current_op, current_args |-> current_args,
     current_op_lineno |-> current_op_lineno, pending_sign |-> pending_sign]

\* the None of an opcode name: no token is the empty string
NoName == <<>>

NewLine == LineState(NoName, <<>>, None, 1)
has_op(line) == line.current_op # NoName
add_arg(line, value) == [line EXCEPT !.current_args = Append(@, value)]

ParseError(msg, line) == SyntaxError(msg, "", line)

\* Parser._is_literal_name and _literal_value
literal_value ==
    (<<"N", "o", "n", "e">> :> PyNone) @@ (<<"T", "r", "u", "e">> :> PyBool(TRUE))
    @@ (<<"F", "a", "l", "s", "e">> :> PyBool(FALSE))

\* Parser._on_name, _on_number and _on_op: the line state after the token,
\* or the SyntaxError raised
on_name(line, tok) ==
    IF ~has_op(line)
    THEN IF is_command_name(upper(tok.string))
         THEN [err |-> NoError,
               line |-> [line EXCEPT !.current_op = upper(tok.string),
                                     !.current_op_lineno = tok.line]]
         ELSE [err |-> ParseError("Unknown opcode", tok.line), line |-> line]
    ELSE [err |-> NoError,
          line |-> add_arg(line, IF tok.string \in DOMAIN literal_value
                                 THEN literal_value[tok.string]
                                 ELSE IdentTok(tok.string))]

on_number(line, tok) ==
    [err |-> NoError,
     line |-> [add_arg(line, parse_number(tok.string, line.pending_sign))
                  EXCEPT !.pending_sign = 1]]

on_op(line, tok) ==
    [err |-> NoError,
     line |-> IF tok.string = <<"-">> /\ has_op(line)
              THEN [line EXCEPT !.pending_sign = -1]
              ELSE IF has_op(line) /\ tok.string \in ALLOWED_OPS
              THEN add_arg(line, PyStr(tok.string))
              ELSE line]

\* Emitter.ensure_framing
ensure_framing(instrs) ==
    LET iname(x) == IF IsInstr(x) THEN x.op ELSE ""
        lineno(x) == IF x.line = NoLine THEN 1 ELSE x.line
        Tail2(s) ==
            IF iname(s[Len(s)]) # "RETURN_VALUE"
            THEN s \o <<Instr("LOAD_CONST", IntArg(0), lineno(s[Len(s)])),
                        Instr("RETURN_VALUE", NoArg, lineno(s[Len(s)]))>>
            ELSE s
    IN IF instrs = <<>>
       THEN <<Instr("RESUME", IntArg(0), 1), Instr("LOAD_CONST", IntArg(0), 1),
              Instr("RETURN_VALUE", NoArg, 1)>>
       ELSE Tail2(IF iname(instrs[1]) # "RESUME"
                  THEN <<Instr("RESUME", IntArg(0), lineno(instrs[1]))>> \o instrs
                  ELSE instrs)

(***************************************************************************)
(* LET (src/paxy/commands/core/let.py)                                     *)
(***************************************************************************)
\* str(value) of an argument
TextOf(value) ==
    CASE value.t = "ident" -> value.s
      [] value.t = "str" -> value.chars
      [] value.t = "int" -> TextOfInt(value.n)
      [] value.t = "bool" -> IF value.n = 1 THEN <<"T", "r", "u", "e">>
                             ELSE <<"F", "a", "l", "s", "e">>
      [] value.t = "NoneType" -> <<"N", "o", "n", "e">>

\* Let._emit_load
emit_load(value, lineno) ==
    IF value.t = "ident" THEN Instr("LOAD_NAME", StrArg(value.s), lineno)
    ELSE Instr("LOAD_CONST", value, lineno)

\* Let._classify_and_coerce_op
classify_and_coerce_op(op) ==
    LET text == PyStr(TextOf(op))
    IN IF coerce_compare_op(text).ok
       THEN [err |-> NoError, kind |-> "COMPARE_OP", coerced |-> coerce_compare_op(text).value]
       ELSE IF coerce_is_op(text).ok
       THEN [err |-> NoError, kind |-> "IS_OP", coerced |-> coerce_is_op(text).value]
       ELSE IF coerce_contains_op(text).ok
       THEN [err |-> NoError, kind |-> "CONTAINS_OP",
             coerced |-> coerce_contains_op(text).value]
       ELSE IF coerce_binary_op(text).ok
       THEN [err |-> NoError, kind |-> "BINARY_OP", coerced |-> coerce_binary_op(text).value]
       ELSE [err |-> ParseError("Unknown BINARY_OP name/symbol", NoLine)]

\* Let.make_ops
let_make_ops(args, lineno) ==
    LET Store(dst) == Instr("STORE_NAME", StrArg(dst.s), lineno)
        Operator(dst, lhs, rhs, c) ==
            IF c.err # NoError THEN [err |-> c.err, ops |-> <<>>]
            ELSE [err |-> NoError,
                  ops |-> <<emit_load(lhs, lineno), emit_load(rhs, lineno),
                            Instr(c.kind, c.coerced, lineno), Store(dst)>>]
        Forms(dst, rest) ==
            IF Len(rest) = 1
            THEN [err |-> NoError, ops |-> <<emit_load(rest[1], lineno), Store(dst)>>]
            ELSE IF Len(rest) = 3
            THEN Operator(dst, rest[1], rest[3], classify_and_coerce_op(rest[2]))
            ELSE [err |-> ParseError("LET operator form: LET <name> <lhs> <op> <rhs>", NoLine),
                  ops |-> <<>>]
    IN IF Len(args) < 2
       THEN [err |-> ParseError("LET expects at least: LET <name> <value>", NoLine),
             ops |-> <<>>]
       ELSE IF args[1].t # "ident"
       THEN [err |-> ParseError("LET expects an identifier as the first argument", NoLine),
             ops |-> <<>>]
       ELSE Forms(args[1], Tail(args))

\* paxy.commands.command(op, args, lineno)
command(op, args, lineno) == let_make_ops(args, lineno)

(***************************************************************************)
(* Block collection and the token loop                                     *)
(***************************************************************************)
IsEol(tok) == tok.type \in {"NEWLINE", "ENDMARKER"}

\* _consume_to_eol: the position after the next NEWLINE or ENDMARKER
RECURSIVE consume_to_eol(_, _)
consume_to_eol(toks, pos) ==
    IF pos > Len(toks) THEN pos
    ELSE IF IsEol(toks[pos]) THEN pos + 1
    ELSE consume_to_eol(toks, pos + 1)

\* the loop of Parser._collect_tokens_until from the token at pos: the
\* tokens collected and the position the iterator is left at
RECURSIVE CollectFrom(_, _, _, _, _, _, _)
CollectFrom(toks, pos, end_op, opener, collected, pending_op, depth) ==
    IF pos > Len(toks) THEN [collected |-> collected, next |-> pos]
    ELSE LET tok == toks[pos]
             Keep(pending) ==
                 IF tok.type = "ENDMARKER"
                 THEN [collected |-> Append(collected, tok), next |-> pos + 1]
                 ELSE CollectFrom(toks, pos + 1, end_op, opener, Append(collected, tok),
                                  IF tok.type = "NEWLINE" THEN NoName ELSE pending, depth)
             Closer(eol) ==
                 IF depth = 0 THEN [collected |-> collected, next |-> eol]
                 ELSE CollectFrom(toks, eol, end_op, opener, collected, NoName, depth - 1)
         IN IF tok.type = "NAME" /\ pending_op = NoName
            THEN IF opener # NoName /\ upper(tok.string) = opener
                 THEN CollectFrom(toks, pos + 1, end_op, opener, Append(collected, tok),
                                  upper(tok.string), depth + 1)
                 ELSE IF upper(tok.string) = end_op
                 THEN Closer(consume_to_eol(toks, pos + 1))
                 ELSE Keep(upper(tok.string))
            ELSE Keep(pending_op)

opener_for == (S_SBE :> S_SUB) @@ (S_RNE :> S_RNG)

collect_tokens_until(toks, pos, end_op) ==
    CollectFrom(toks, pos, end_op, DictGet(opener_for, end_op, NoName), <<>>, NoName, 0)

\* Parser._coerce_native_arg and _emit_jump_or_instr
emit_jump_or_instr(op, arg0, lineno) ==
    IF op \in (COND_JUMP_OPS \cup UNCOND_JUMP_FIXED) /\ arg0.t \in {"ident", "str"}
    THEN NamedJump(op, TextOf(arg0), lineno)
    ELSE Instr(op, arg0, lineno)

\* Parser.parse_tokens; ParseFrom is the token loop from the token at pos
\* with the line in progress, store_instruction_from_line included, calls
\* lists the commands called with their arguments
RECURSIVE parse_tokens(_)
RECURSIVE ParseFrom(_, _, _, _, _)
ParseFrom(toks, pos, line, instructions, calls) ==
    LET Failed(err) == [err |-> err, items |-> instructions, calls |-> calls]
        lineno == IF line.current_op_lineno = None THEN 1 ELSE line.current_op_lineno
        args == line.current_args
        Block(next, c, made(_)) ==
            \* the body is parsed by a nested Parser
            IF parse_tokens(c.collected).err # NoError
            THEN Failed(parse_tokens(c.collected).err)
            ELSE ParseFrom(toks, c.next, NewLine,
                           Append(instructions, made(parse_tokens(c.collected).items)),
                           calls)
        MakeRange(body) == RangeBlock(args[1].s, args[2], args[3], body, lineno)
        MakeFunc(body) ==
            FuncDef(args[1].s, [j \in 1..(Len(args) - 1) |-> args[j + 1].s], body, lineno)
        WithCall == Append(calls, [op |-> line.current_op, args |-> args, lineno |-> lineno])
        Basic(next, r) ==
            IF r.err # NoError
            THEN [err |-> r.err, items |-> instructions, calls |-> WithCall]
            ELSE ParseFrom(toks, next, NewLine, instructions \o r.ops, WithCall)
        Native(next) ==
            IF args = <<>>
            THEN ParseFrom(toks, next, NewLine,
                           Append(instructions, Instr(opmap[line.current_op], NoArg, lineno)),
                           calls)
            ELSE IF Len(args) = 1
            THEN ParseFrom(toks, next, NewLine,
                           Append(instructions,
                                  emit_jump_or_instr(opmap[line.current_op], args[1], lineno)),
                           calls)
            ELSE Failed(ParseError("takes at most one argument", NoLine))
        \* _flush_line_if_any, then the loop goes on at next
        Flush(next) ==
            IF ~has_op(line) THEN ParseFrom(toks, next, line, instructions, calls)
            ELSE IF line.current_op = S_RNG
            THEN IF Len(args) # 3 \/ args[1].t # "ident"
                 THEN Failed(ParseError("RNG expects: RNG <var> <start> <end>", NoLine))
                 ELSE Block(next, collect_tokens_until(toks, next, S_RNE), MakeRange)
            ELSE IF line.current_op = S_SUB
            THEN IF args = <<>> \/ args[1].t # "ident"
                 THEN Failed(ParseError("SUB expects: SUB <name> [params...]", NoLine))
                 ELSE IF \E j \in 2..Len(args) : args[j].t # "ident"
                 THEN Failed(ParseError("SUB parameters must be identifiers", NoLine))
                 ELSE Block(next, collect_tokens_until(toks, next, S_SBE), MakeFunc)
            ELSE IF is_command(line.current_op)
            THEN Basic(next, command(line.current_op, args, lineno))
            ELSE Native(next)
        Handle(r) ==
            IF r.err # NoError THEN Failed(r.err)
            ELSE ParseFrom(toks, pos + 1, r.line, instructions, calls)
    IN IF pos > Len(toks)
       THEN IF has_op(line) THEN Flush(pos)
            ELSE [err |-> NoError, items |-> ensure_framing(instructions), calls |-> calls]
       ELSE CASE IsEol(toks[pos]) -> Flush(pos + 1)
              [] toks[pos].type = "NAME" -> Handle(on_name(line, toks[pos]))
              [] toks[pos].type = "NUMBER" -> Handle(on_number(line, toks[pos]))
              [] toks[pos].type = "OP" -> Handle(on_op(line, toks[pos]))
              [] OTHER -> ParseFrom(toks, pos + 1, line, instructions, calls)

parse_tokens(toks) == ParseFrom(toks, 1, NewLine, <<>>, <<>>)

(***************************************************************************)
(* The sources parsed: blocks and plain lines, nested in every balanced    *)
(* way, and the LET lines with an operator.                                *)
(***************************************************************************)
Word(type, string) == [type |-> type, string |-> string]

SourceLine(kind) ==
    CASE kind = "RNG" -> <<Word("NAME", S_RNG), Word("NAME", <<"i">>),
                          Word("NUMBER", <<"1">>), Word("NAME", <<"n">>)>>
      [] kind = "RNE" -> <<Word("NAME", S_RNE)>>
      [] kind = "SUB" -> <<Word("NAME", S_SUB), Word("NAME", <<"f">>)>>
      [] kind = "SBE" -> <<Word("NAME", S_SBE)>>
      [] kind = "NOP" -> <<Word("NAME", S_NOP)>>

LineKinds == {"RNG", "RNE", "SUB", "SBE", "NOP"}
CloserOf == ("RNG" :> "RNE") @@ ("SUB" :> "SBE")

\* every closer closes the block opened last, and no block is left open
RECURSIVE BalancedFrom(_, _, _)
BalancedFrom(kinds, j, open) ==
    IF j > Len(kinds) THEN open = <<>>
    ELSE IF kinds[j] \in DOMAIN CloserOf
    THEN BalancedFrom(kinds, j + 1, Append(open, kinds[j]))
    ELSE IF kinds[j] = "NOP" THEN BalancedFrom(kinds, j + 1, open)
    ELSE /\ open # <<>> /\ CloserOf[open[Len(open)]] = kinds[j]
         /\ BalancedFrom(kinds, j + 1, SubSeq(open, 1, Len(open) - 1))

BlockSources ==
    {[j \in 1..Len(kinds) |-> SourceLine(kinds[j])]
        : kinds \in {k \in SeqsUpTo(LineKinds, MaxSrc) : BalancedFrom(k, 1, <<>>)}}

\* the line LET d a <op> b
LetOperatorLine(o) ==
    <<Word("NAME", S_LET), Word("NAME", <<"d">>), Word("NAME", <<"a">>),
      Word("OP", o), Word("NAME", <<"b">>)>>

\* LET d a <op> b for the operators allowed bare and for one that is not,
\* LET x 5 and LET x -5
LetSources ==
    {<<LetOperatorLine(o)>> : o \in ALLOWED_OPS \cup {<<"@">>}}
    \cup {<<<<Word("NAME", S_LET), Word("NAME", <<"x">>), Word("NUMBER", <<"5">>)>>>>,
          <<<<Word("NAME", S_LET), Word("NAME", <<"x">>), Word("OP", <<"-">>),
              Word("NUMBER", <<"5">>)>>>>}

\* tokenize: the tokens of the lines, numbered from 1
RECURSIVE Tokenize(_, _)
Tokenize(lines, n) ==
    IF n > Len(lines) THEN <<Tok("ENDMARKER", <<>>, n)>>
    ELSE [j \in 1..Len(lines[n]) |-> Tok(lines[n][j].type, lines[n][j].string, n)]
         \o <<Tok("NEWLINE", <<>>, n)>> \o Tokenize(lines, n + 1)

ParseInit ==
    /\ parser \in {[pc |-> "called", toks |-> Tokenize(src, 1)]
                      : src \in BlockSources \cup LetSources}
    /\ py313 = FALSE
    /\ nseq = <<>> /\ nout1 = NotRun /\ nout2 = NotRun /\ nstage = 0
    /\ stack = <<>> /\ nextLabel = 1 /\ status = "idle"
    /\ error = NoError /\ output = <<>>
    /\ coerce = OpIdle /\ cli = CliIdle /\ scan = ScanIdle /\ cache = CacheIdle

\* Parser.parse_file: the tokens of the file are parsed
ParseFile ==
    /\ parser.pc = "called"
    /\ LET Done(r) ==
               parser' = [pc |-> IF r.err = NoError THEN "returned" ELSE "raised",
                          toks |-> parser.toks, err |-> r.err, items |-> r.items,
                          calls |-> r.calls]
       IN Done(parse_tokens(parser.toks))
    /\ UNCHANGED <<scan, cache, coerce, cli, py313, nseq, nout1, nout2, nstage, stack,
                   nextLabel, status, error, output>>

ParseNext == ParseFile

SpecParse == ParseInit /\ [][ParseNext]_vars

(***************************************************************************)
(* The compiled-code cache (src/paxy/cli.py).  The source file holds       *)
(* bytes, written here as a number up to MaxByte; the cache file is absent *)
(* or holds a pyc: magic number, flags, the eight bytes after the flags,   *)
(* and the marshalled code.  source_hash keeps HashBits bits of the bytes: *)
(* like the library's eight-byte hash it maps more sources than it has     *)
(* values.  A code object is known by the bytes it was assembled from.     *)
(***************************************************************************)
SourceBytes == 0..MaxByte

\* importlib.util.source_hash
source_hash(src_bytes) == src_bytes % (2 ^ HashBits)

\* the sources Parser or Assembler raise for
Unparsable == {0}

CodeOf(src_bytes) == [k |-> "code", of |-> src_bytes]
NoCode == [k |-> "None"]
Raised == [k |-> "raised"]

\* PaxyCompiler.assemble_file
assemble_file(src_bytes) ==
    IF src_bytes \in Unparsable THEN Raised ELSE CodeOf(src_bytes)

NoFile == [k |-> "absent"]
Pyc(magic, flags, word, code) ==
    [k |-> "pyc", magic |-> magic, flags |-> flags, word |-> word, code |-> code]

\* bootstrap._code_to_hash_pyc and PaxyCompiler._make_hash_pyc
make_hash_pyc(code, src_bytes, checked) ==
    Pyc("MAGIC_NUMBER", 1 + 2 * (IF checked THEN 1 ELSE 0), source_hash(src_bytes), code)

\* bootstrap._code_to_timestamp_pyc: the flags are 0, the eight bytes are
\* the time and the size
code_to_timestamp_pyc(code, ts) == Pyc("MAGIC_NUMBER", 0, ts, code)

\* PaxyCompiler._load_hash_pyc_if_valid
load_hash_pyc_if_valid_any_hash(data, src_bytes) ==
    IF data = NoFile THEN NoCode
    ELSE IF data.magic # "MAGIC_NUMBER" THEN NoCode
    ELSE IF data.flags % 2 # 1 THEN NoCode
    ELSE data.code
load_hash_pyc_if_valid(data, src_bytes) ==
    IF data = NoFile THEN NoCode
    ELSE IF data.magic # "MAGIC_NUMBER" THEN NoCode
    ELSE IF data.flags % 2 # 1 THEN NoCode
    ELSE IF data.word # source_hash(src_bytes) THEN NoCode
    ELSE data.code

\* PaxyCompiler._load_code_with_cache: what is returned or that the call
\* raised, whether the cache was used, and the cache file left
load_code_with_cache(src_bytes, file) ==
    LET cached == load_hash_pyc_if_valid(file, src_bytes)
        code == assemble_file(src_bytes)
    IN IF cached # NoCode THEN [ret |-> cached, hit |-> TRUE, file |-> file]
       ELSE IF code = Raised THEN [ret |-> Raised, hit |-> FALSE, file |-> file]
       ELSE [ret |-> code, hit |-> FALSE, file |-> make_hash_pyc(code, src_bytes, TRUE)]

\* what the last load was given and gave
Loaded(src_bytes, before, r) ==
    [bytes |-> src_bytes, before |-> before, ret |-> r.ret, hit |-> r.hit, after |-> r.file]
NotLoaded == [ret |-> NoCode]

\* the cache files a run can start with: none, one another interpreter
\* wrote, or a timestamp pyc
InitialFiles ==
    {NoFile}
    \cup {Pyc("other", f, source_hash(b), CodeOf(b)) : f \in {0, 1}, b \in SourceBytes}
    \cup {code_to_timestamp_pyc(CodeOf(b), 0) : b \in SourceBytes \ Unparsable}

CacheInit ==
    /\ cache \in {[pc |-> "ready", src |-> b, file |-> f, last |-> NotLoaded]
                     : b \in SourceBytes, f \in InitialFiles}
    /\ py313 = FALSE
    /\ nseq = <<>> /\ nout1 = NotRun /\ nout2 = NotRun /\ nstage = 0
    /\ stack = <<>> /\ nextLabel = 1 /\ status = "idle"
    /\ error = NoError /\ output = <<>>
    /\ coerce = OpIdle /\ cli = CliIdle /\ scan = ScanIdle /\ parser = ParserIdle

CacheStep(next) ==
    /\ cache.pc = "ready"
    /\ cache' = next
    /\ UNCHANGED <<parser, scan, coerce, cli, py313, nseq, nout1, nout2, nstage, stack,
                   nextLabel, status, error, output>>

\* the source file is edited
EditSource ==
    \E b \in SourceBytes \ {cache.src} :
        CacheStep([cache EXCEPT !.src = b])

\* PaxyCompiler.load_code
LoadCode ==
    /\ cache.pc = "ready"
    /\ LET r == load_code_with_cache(cache.src, cache.file)
       IN CacheStep([cache EXCEPT !.file = r.file,
                                  !.last = Loaded(cache.src, cache.file, r)])

\* PaxyCompiler.compile_file for a source with a .py sibling and no
\* optimization level: the pyc is written where the cache is
CompileFile ==
    /\ cache.pc = "ready"
    /\ \E hash_based \in BOOLEAN :
           LET r == load_code_with_cache(cache.src, cache.file)
               pyc == IF hash_based THEN make_hash_pyc(r.ret, cache.src, TRUE)
                      ELSE code_to_timestamp_pyc(r.ret, 0)
           IN CacheStep([cache EXCEPT !.file = IF r.ret = Raised THEN r.file ELSE pyc,
                                      !.last = Loaded(cache.src, cache.file, r)])

CacheNext ==
    \/ EditSource
    \/ LoadCode
    \/ CompileFile

SpecCache == CacheInit /\ [][CacheNext]_vars

(***************************************************************************)
(* Vocabulary of the properties.                                           *)
(***************************************************************************)
Idx(s) == 0..(Len(s) - 1)

\* the names a scope's own IR list declares
DeclaredIn(items) ==
    {items[j].label_name : j \in {m \in 1..Len(items) : items[m].k = "LabelDecl"}}

HasDuplicateDecl(items) ==
    \E a, b \in 1..Len(items) :
        /\ a < b /\ items[a].k = "LabelDecl" /\ items[b].k = "LabelDecl"
        /\ items[a].label_name = items[b].label_name

IsNamedJumpItem(it) ==
    \/ it.k \in {"JumpRef", "NamedJump"}
    \/ /\ it.k = "Instr" /\ it.op \in (COND_JUMP_OPS \cup UNCOND_JUMP_FIXED)
       /\ it.arg.t = "str"
JumpTargetOf(it) == IF it.k = "Instr" THEN it.arg.s ELSE it.target_name

\* every item of a scope: the list's own items and, recursively, the items
\* written inside its loops (a FuncDef body is another scope)
RECURSIVE ScopeItems(_)
ScopeItems(items) ==
    UNION {IF items[j].k = "RangeBlock"
           THEN {items[j]} \cup ScopeItems(items[j].body)
           ELSE {items[j]} : j \in 1..Len(items)}

\* the items written inside the loops of a scope
RECURSIVE LoopBodyItems(_)
LoopBodyItems(items) ==
    UNION {IF items[j].k = "RangeBlock" THEN ScopeItems(items[j].body) ELSE {}
           : j \in 1..Len(items)}

\* all labels of a scope exist: every jump of the scope names a declared label,
\* and so on for the function bodies below it
RECURSIVE AllLabelsDefined(_)
AllLabelsDefined(items) ==
    /\ \A it \in ScopeItems(items) :
          IsNamedJumpItem(it) => JumpTargetOf(it) \in DeclaredIn(items)
    /\ \A it \in ScopeItems(items) : it.k = "FuncDef" => AllLabelsDefined(it.body)

\* no LabelDecl is written inside a loop, in this scope or in a function below
RECURSIVE NoLabelInLoops(_)
NoLabelInLoops(items) ==
    /\ \A it \in LoopBodyItems(items) : it.k # "LabelDecl"
    /\ \A it \in ScopeItems(items) : it.k = "FuncDef" => NoLabelInLoops(it.body)

Resolved == status = "done"
ModuleItems == stack[1].items

(***************************************************************************)
(* C1  resolve() returns operations and labels only: when every jump names *)
(* a label of its scope, each element of the returned list is an Instr or  *)
(* a Label, also for what was written inside a loop.                       *)
(***************************************************************************)
C1_OnlyInstrAndLabel ==
    (Resolved /\ AllLabelsDefined(ModuleItems) /\ NoLabelInLoops(ModuleItems))
        => \A j \in 1..Len(output) : output[j].k \in {"Instr", "Label"}

(***************************************************************************)
(* C2  Jump direction: in the stream the patch pass has patched, a GO at   *)
(* index r whose label sits at index d is JUMP_FORWARD iff d > r and       *)
(* JUMP_BACKWARD iff d < r.                                                *)
(***************************************************************************)
Patched(f) == f.pc \in {"lower", "sanity", "returned"}

JumpDirectionRight(f) ==
    \A r \in Idx(f.resolved_stream) :
        LET e == At(f.resolved_stream, r)
        IN (e.k = "Placeholder" /\ e.tag = TAG_JUMP) =>
             \A d \in Idx(f.patched) :
                At(f.patched, d) = Label(f.label_objects[e.ref.target_name]) =>
                   /\ (At(f.patched, r).op = "JUMP_FORWARD") <=> (d > r)
                   /\ (At(f.patched, r).op = "JUMP_BACKWARD") <=> (d < r)

C2_JumpDirection ==
    \A j \in 1..Len(stack) : Patched(stack[j]) => JumpDirectionRight(stack[j])

(***************************************************************************)
(* C3  After the normalizer (pre-3.13), every CALL whose callable-load is  *)
(* found behind its argument pushes has exactly one PUSH_NULL right before *)
(* the callable-load and none between the callable-load and the CALL.      *)
(***************************************************************************)
\* the callable-load of the CALL at i, located as the normalizer locates it
CallableOf(s, i) ==
    LET ins == At(s, i)
        bt == BacktrackArgs(s, i, IF ins.arg.t = "int" THEN ins.arg.n ELSE 0)
    IN IF bt.cursor = None \/ bt.remaining # 0 THEN None
       ELSE SkipNullsBack(s, prev_instr_idx(s, bt.cursor))

CallSiteCanonical(s, i) ==
    LET c == CallableOf(s, i)
    IN c # None =>
         /\ HasImmediateNull(s, c)
         /\ ~(c - 2 >= 0 /\ IsOp(At(s, c - 2), "PUSH_NULL"))
         /\ \A m \in (c + 1)..(i - 1) : ~IsOp(At(s, m), "PUSH_NULL")

C3_EveryCallHasItsSentinel ==
    (nstage >= 1 /\ ~py313 /\ ~nout1.err)
        => \A i \in Idx(nout1.s) :
              IsOp(At(nout1.s, i), "CALL") => CallSiteCanonical(nout1.s, i)

(***************************************************************************)
(* C4  The normalizer is idempotent: normalizing its own output changes    *)
(* nothing.                                                                *)
(***************************************************************************)
C4_NormalizeIdempotent ==
    nstage = 2 => (~nout2.err /\ nout2.s = nout1.s)

(***************************************************************************)
(* C5  Scope classification: in every lowered function body, with L the    *)
(* parameters and the stored names, a name is accessed by LOAD_FAST /      *)
(* STORE_FAST only if it is in L, by LOAD_GLOBAL only if it is not, and    *)
(* no *_NAME operation is left.                                            *)
(***************************************************************************)
CodeObjectsIn(seq) ==
    {seq[j].arg : j \in {m \in 1..Len(seq) : IsInstr(seq[m]) /\ seq[m].arg.t = "code"}}

ScopeClassified(code) ==
    LET L == local_names_of(code.body, code.argnames)
    IN \A j \in 1..Len(code.body) :
          LET ins == code.body[j]
          IN IsInstr(ins) =>
               /\ ins.op \notin EndsWithNAME
               /\ (ins.op \in FastOps /\ ins.arg.t = "str") => ins.arg.s \in L
               /\ (ins.op = "LOAD_GLOBAL" /\ ins.arg.t = "lg" /\ ins.arg.s # "range")
                     => ins.arg.s \notin L

C5_ScopeClassification ==
    \A j \in 1..Len(stack) :
        \A code \in CodeObjectsIn(stack[j].final) : ScopeClassified(code)

(***************************************************************************)
(* C6  Undefined label: a scope with a jump to a name it does not declare  *)
(* is never resolved; resolve() fails with the undefined-label error       *)
(* naming such a target.                                                   *)
(***************************************************************************)
UndefinedMsgs == {"GO to undefined LBL", "jump to undefined LBL"}

UndefinedTargets(items) ==
    {JumpTargetOf(it) : it \in {x \in ScopeItems(items) : IsNamedJumpItem(x)}}
        \ DeclaredIn(items)

C6_UndefinedLabelRejected ==
    \A j \in 1..Len(stack) :
        UndefinedTargets(stack[j].items) # {} =>
            /\ ~Patched(stack[j])
            /\ (status = "error" /\ j = Len(stack) /\ ~HasDuplicateDecl(stack[j].items))
                  => /\ error.type = "SyntaxError" /\ error.msg \in UndefinedMsgs
                     /\ error.name \in UndefinedTargets(stack[j].items)

(***************************************************************************)
(* C7  Duplicate label: an Assembler whose IR list declares a name twice   *)
(* fails in label discovery with the duplicate-label error; no Label has   *)
(* been created, no later pass has run, nothing is returned.               *)
(***************************************************************************)
DuplicatedNames(items) ==
    {n \in DeclaredIn(items) :
        Cardinality({m \in 1..Len(items) :
                        items[m].k = "LabelDecl" /\ items[m].label_name = n}) > 1}

C7_DuplicateRejectedAtDiscovery ==
    [][(Running /\ HasDuplicateDecl(Top.items)) =>
          /\ Top.pc = "discover"
          /\ Top.label_objects = EmptyDict
          /\ Top.resolved_stream = <<>> /\ Top.patched = <<>> /\ Top.final = <<>>
          /\ status' = "error"
          /\ error'.type = "SyntaxError" /\ error'.msg = "Duplicate LBL"
          /\ error'.name \in DuplicatedNames(Top.items)
          /\ stack' = stack /\ nextLabel' = nextLabel /\ output' = <<>>]_vars

\* a function body with a duplicate label has been rejected
C7_Witness ==
    /\ status = "error" /\ error.msg = "Duplicate LBL"
    /\ Len(stack) = 2 /\ HasDuplicateDecl(Top.items)

(***************************************************************************)
(* C8  Return outside function: a module scope (inside_function = false)   *)
(* with a ReturnMarker anywhere in it is never resolved, and the           *)
(* return-outside-function error is never raised inside a function.        *)
(***************************************************************************)
HasReturnMarker(items) == \E it \in ScopeItems(items) : it.k = "ReturnMarker"

C8_ReturnOutsideFunction ==
    /\ Resolved => ~HasReturnMarker(ModuleItems)
    /\ (status = "error" /\ error.msg = "RET outside of SUB")
          => (~Top.in_function /\ HasReturnMarker(Top.items))

(***************************************************************************)
(* C9  Label in loop body: an input with a LabelDecl inside a RangeBlock   *)
(* body is never resolved.                                                 *)
(***************************************************************************)
C9_LabelInLoopRejected ==
    Resolved => \A it \in LoopBodyItems(ModuleItems) : it.k # "LabelDecl"

(***************************************************************************)
(* C10  Label scopes are isolated: a duplicate-label error only comes from *)
(* two declarations in one scope's own list; a function body that jumps to *)
(* a name declared only in the enclosing scope is never resolved; the      *)
(* Label objects of different scopes are different objects.                *)
(***************************************************************************)
RECURSIVE LabelIdsIn(_)
LabelIdsIn(seq) ==
    UNION {LET x == seq[j]
           IN IF x.k = "Label" THEN {x.id}
              ELSE IF x.k = "Instr" /\ x.arg.t = "label" THEN {x.arg.l}
              ELSE IF x.k = "Instr" /\ x.arg.t = "code" THEN LabelIdsIn(x.arg.body)
              ELSE {} : j \in 1..Len(seq)}

OwnLabelIds(f) == {f.label_objects[n] : n \in DOMAIN f.label_objects}

C10_ScopesIsolated ==
    /\ (status = "error" /\ error.msg = "Duplicate LBL") => HasDuplicateDecl(Top.items)
    /\ \A j \in 2..Len(stack) :
          (UndefinedTargets(stack[j].items) \cap DeclaredIn(stack[j - 1].items)) # {}
              => ~Patched(stack[j])
    /\ \A j \in 1..Len(stack) :
          /\ \A code \in CodeObjectsIn(stack[j].final) :
                LabelIdsIn(code.body) \cap OwnLabelIds(stack[j]) = {}
          /\ \A m \in 1..Len(stack) : m # j =>
                OwnLabelIds(stack[m]) \cap OwnLabelIds(stack[j]) = {}

(***************************************************************************)
(* C11  Loop lowering: every RangeBlock of a scope, also one written       *)
(* inside another loop, appears in the scope's rewritten stream as: load   *)
(* of range, loads of start and end, CALL, GET_ITER, a loop-head Label,    *)
(* FOR_ITER to an end Label, a store of var, the body operations,          *)
(* JUMP_BACKWARD to the loop head, the end Label, END_FOR, POP_TOP; the    *)
(* two Labels are fresh.                                                   *)
(***************************************************************************)
Rewritten(f) == f.pc \notin {"discover", "build", "rewrite"}

IsTokenLoad(x, tok) ==
    /\ IsInstr(x)
    /\ IF tok.t = "ident"
       THEN x.op \in {"LOAD_NAME", "LOAD_FAST", "LOAD_GLOBAL"} /\ x.arg.t \in {"str", "lg"}
            /\ x.arg.s = tok.s
       ELSE x.op = "LOAD_CONST" /\ x.arg = IntArg(tok.n)

\* the plain operations of a loop body that the lowering keeps
KeptBodyInstrs(it) ==
    SelectSeq(it.body, LAMBDA x : IsInstr(x) /\ KeepInLoopBody(x))

\* seq a occurs in s between positions lo and hi, in order
InOrderBetween(a, s, lo, hi) ==
    \E pos \in [1..Len(a) -> lo..hi] :
        /\ \A m \in 1..Len(a) : s[pos[m]] = a[m]
        /\ \A m \in 1..(Len(a) - 1) : pos[m] < pos[m + 1]

LoopSegmentAt(s, a, e, it, declared) ==
    /\ a + 7 < e /\ e + 3 <= Len(s)
    /\ IsOp(s[a], "LOAD_GLOBAL") /\ s[a].arg.t = "lg" /\ s[a].arg.s = "range"
    /\ IsTokenLoad(s[a + 1], it.start) /\ IsTokenLoad(s[a + 2], it.end)
    /\ IsOp(s[a + 3], "CALL") /\ IsOp(s[a + 4], "GET_ITER")
    /\ s[a + 5].k = "Label"
    /\ IsOp(s[a + 6], "FOR_ITER") /\ s[a + 6].arg.t = "label"
    /\ IsInstr(s[a + 7]) /\ s[a + 7].op \in {"STORE_NAME", "STORE_FAST"}
    /\ s[a + 7].arg = StrArg(it.var)
    /\ InOrderBetween(KeptBodyInstrs(it), s, a + 8, e - 1)
    /\ IsOp(s[e], "JUMP_BACKWARD") /\ s[e].arg = LblArg(s[a + 5].id)
    /\ s[e + 1] = Label(s[a + 6].arg.l)
    /\ IsOp(s[e + 2], "END_FOR") /\ IsOp(s[e + 3], "POP_TOP")
    /\ s[a + 5].id # s[a + 6].arg.l
    /\ {s[a + 5].id, s[a + 6].arg.l} \cap declared = {}
    /\ \A m \in 1..Len(s) :
          (s[m].k = "Label" /\ s[m].id \in {s[a + 5].id, s[a + 6].arg.l})
              => m \in {a + 5, e + 1}

HasLoopSegment(f, it) ==
    \E a, e \in 1..Len(f.resolved_stream) :
        LoopSegmentAt(f.resolved_stream, a, e, it, OwnLabelIds(f))

C11_LoopSkeleton ==
    \A j \in 1..Len(stack) :
        Rewritten(stack[j]) =>
            \A it \in ScopeItems(stack[j].items) :
                it.k = "RangeBlock" => HasLoopSegment(stack[j], it)

(***************************************************************************)
(* C12  Nothing of a loop body returns or frames: in every list resolve()  *)
(* returns, between a loop's store of var and its JUMP_BACKWARD there is   *)
(* no RESUME, no RETURN_VALUE / RETURN_CONST and no ReturnMarker.          *)
(***************************************************************************)
Returned(f) == f.pc = "returned"

IsFramingOrReturn(x) ==
    \/ x.k = "ReturnMarker"
    \/ IsInstr(x) /\ x.op \in DROP_NAMES

\* the positions strictly inside the loop whose head Label is at h
LoopInterior(s, h) ==
    {m \in 1..Len(s) :
        \E e \in 1..Len(s) :
            /\ h + 2 < m /\ m < e
            /\ IsOp(s[e], "JUMP_BACKWARD") /\ s[e].arg = LblArg(s[h].id)}

IsLoopHead(s, h) ==
    /\ h + 2 <= Len(s)
    /\ s[h].k = "Label"
    /\ IsOp(s[h + 1], "FOR_ITER")
    /\ IsInstr(s[h + 2]) /\ s[h + 2].op \in {"STORE_NAME", "STORE_FAST"}

NoReturnInsideLoops(s) ==
    \A h \in 1..Len(s) :
        IsLoopHead(s, h) => \A m \in LoopInterior(s, h) : ~IsFramingOrReturn(s[m])

C12_LoopBodyNeverReturns ==
    \A j \in 1..Len(stack) :
        Returned(stack[j]) => NoReturnInsideLoops(stack[j].final)

(***************************************************************************)
(* C13  The default return of a function: when _lower_funcdef builds the   *)
(* code object of a FuncDef whose body holds no ReturnMarker and no        *)
(* RETURN_VALUE operation, the code object's body ends with LOAD_CONST 0,  *)
(* RETURN_VALUE; and when the resolved body already holds a RETURN_VALUE,  *)
(* nothing is appended: the code object has as many returns as the         *)
(* resolved body and does not end with a return the body did not have.     *)
(***************************************************************************)
IsReturnOp(x) == IsOp(x, "RETURN_VALUE")

ReturnsIn(s) == {m \in 1..Len(s) : IsReturnOp(s[m])}

EndsWithDefaultReturn(body) ==
    /\ Len(body) >= 2
    /\ IsOp(body[Len(body) - 1], "LOAD_CONST") /\ body[Len(body) - 1].arg = IntArg(0)
    /\ IsReturnOp(body[Len(body)])

WritesNoReturn(func) ==
    \A it \in ScopeItems(func.body) : it.k # "ReturnMarker" /\ ~IsReturnOp(it)

\* the step in which a body's resolve() has returned and the enclosing
\* scope receives the three operations of the function
FuncdefLowered ==
    /\ Len(stack) > 1 /\ Top.pc = "returned" /\ status = "running"
    /\ status' = "running" /\ Len(stack') = Len(stack) - 1
    /\ Len(stack'[Len(stack')].final) = Len(stack[Len(stack) - 1].final) + 3

DefaultReturnRule(func, inner_resolved, code) ==
    /\ WritesNoReturn(func) => EndsWithDefaultReturn(code.body)
    /\ ReturnsIn(inner_resolved) # {} =>
          /\ Cardinality(ReturnsIn(code.body)) = Cardinality(ReturnsIn(inner_resolved))
          /\ Len(code.body) <= Len(inner_resolved)

Lowered(f) == f.pc \in {"sanity", "returned"}

IsFuncTriple(s, p, func) ==
    /\ p >= 1 /\ p + 2 <= Len(s)
    /\ IsOp(s[p], "LOAD_CONST") /\ s[p].arg.t = "code"
    /\ s[p].arg.argcount = Len(func.params) /\ s[p].arg.argnames = func.params
    /\ IsOp(s[p + 1], "MAKE_FUNCTION")
    /\ s[p + 2] = Instr("STORE_NAME", StrArg(func.name), func.line)

\* how many items of the lowered stream an entry of the patched stream becomes
WidthOf(entry) ==
    CASE entry.k = "FuncDef" -> 3
      [] entry.k = "ReturnMarker" -> IF entry.has_value THEN 1 ELSE 2
      [] OTHER -> 1

\* where the items of entry k of the patched stream start in the lowered one
RECURSIVE StartOf(_, _)
StartOf(patched, k) ==
    IF k <= 1 THEN 1 ELSE StartOf(patched, k - 1) + WidthOf(patched[k - 1])

ReplacedInPlace(f) ==
    \A k \in 1..Len(f.patched) :
        CASE f.patched[k].k = "FuncDef" ->
               IsFuncTriple(f.final, StartOf(f.patched, k), f.patched[k])
          [] f.patched[k].k = "ReturnMarker" -> TRUE
          [] OTHER ->
               /\ StartOf(f.patched, k) <= Len(f.final)
               /\ f.final[StartOf(f.patched, k)] = f.patched[k]

EveryFuncDefReplaced(f) ==
    \A it \in ScopeItems(f.items) :
        it.k = "FuncDef" =>
            \E p \in 1..Len(f.final) : IsFuncTriple(f.final, p, it)

C14_FuncDefReplacedInPlace ==
    \A j \in 1..Len(stack) :
        Lowered(stack[j]) =>
            /\ EveryFuncDefReplaced(stack[j])
            /\ ReplacedInPlace(stack[j])
            /\ Len(stack[j].final) =
                  StartOf(stack[j].patched, Len(stack[j].patched) + 1) - 1

(***************************************************************************)
(* C15  Jumps of a returned list point at Labels: in every list resolve()  *)
(* returns, every item that carries a jump opcode (an Instr, or a          *)
(* NamedJump, the native jump whose operand is still a name) has a Label   *)
(* as operand and no placeholder is left; and a lowered list with such a   *)
(* defect is never returned: resolve() raises at the sanity check, with a  *)
(* RuntimeError, which no other pass raises.                               *)
(***************************************************************************)
JumpOps == COND_JUMP_OPS \cup UNCOND_JUMP_FIXED

JumpWithoutLabel(x) ==
    \/ IsInstr(x) /\ x.op \in JumpOps /\ x.arg.t # "label"
    \/ x.k = "NamedJump" /\ x.opcode \in JumpOps

\* the items of a list, with the items of the blocks left in it
RECURSIVE ItemsWithin(_)
ItemsWithin(s) ==
    UNION {IF s[j].k \in {"RangeBlock", "FuncDef"}
           THEN {s[j]} \cup ItemsWithin(s[j].body)
           ELSE {s[j]} : j \in 1..Len(s)}

HasJumpDefect(s) ==
    \E x \in ItemsWithin(s) : x.k = "Placeholder" \/ JumpWithoutLabel(x)

C15_JumpsHaveLabels ==
    /\ \A j \in 1..Len(stack) : Returned(stack[j]) => ~HasJumpDefect(stack[j].final)
    /\ (status = "error" /\ Top.pc = "sanity")
          => error.type = "RuntimeError" /\ HasJumpDefect(Top.final)
    /\ (status = "error" /\ error.type = "RuntimeError") => Top.pc = "sanity"

(***************************************************************************)
(* C16  resolve() leaves its input alone: at every moment, so when         *)
(* resolve() has returned or failed, the IR list of every Assembler and    *)
(* every item reachable from it (operands such as the flag of a            *)
(* LOAD_GLOBAL, loop bodies) equal what was handed in.  (That the returned *)
(* list is another list than the input holds by construction: every pass   *)
(* builds a new list.)                                                     *)
(***************************************************************************)
InputUntouched(f) == f.items = f.given

C16_InputReadOnly == \A j \in 1..Len(stack) : InputUntouched(stack[j])

(***************************************************************************)
(* C17  User errors carry a location: whenever resolve() has raised a      *)
(* SyntaxError (duplicate label, undefined label, return outside a         *)
(* function, label inside a loop body), the error names the offending      *)
(* label or carries the source line of the offending item.                 *)
(***************************************************************************)
IsUserError(e) == e.type = "SyntaxError"

CarriesLocation(e) == e.name # "" \/ e.line # NoLine

C17_UserErrorsCarryLocation ==
    (status = "error" /\ IsUserError(error)) => CarriesLocation(error)

(***************************************************************************)
(* C18  Every valid spelling resolves to the canonical value: for each of  *)
(* the four families, the member itself, its symbol, its name in any       *)
(* letter case and its integer code all give that member; and coercing     *)
(* the result again gives the same result, coerce(coerce(x)) = coerce(x).  *)
(***************************************************************************)
Coerced == coerce # OpIdle /\ coerce.stage >= 1

\* a and b are the same word up to the case of their letters
SameUpToCase(a, b) ==
    /\ Len(a) = Len(b)
    /\ \A j \in 1..Len(a) :
          \/ a[j] = b[j]
          \/ a[j] \in DOMAIN ToUpper /\ ToUpper[a[j]] = b[j]
          \/ b[j] \in DOMAIN ToUpper /\ ToUpper[b[j]] = a[j]

IsSymbolOf(arg, m, family) ==
    /\ arg.t = "str" /\ arg.chars \in DOMAIN SymbolMapOf(family)
    /\ SymbolMapOf(family)[arg.chars] = m.name

IsSpellingOf(arg, m, family) ==
    \/ arg = m
    \/ IsSymbolOf(arg, m, family)
    \/ arg.t = "str" /\ SameUpToCase(arg.chars, m.name)
    \/ arg = PyInt(m.n)

C18_ValidSpellingsResolve ==
    Coerced =>
        /\ \A m \in ClassOf(coerce.family) :
              IsSpellingOf(coerce.arg, m, coerce.family) => coerce.out1 = Returns(m)
        /\ coerce.stage = 2 => coerce.out2 = coerce.out1

\* "is_not" has been resolved to IsOp.IS_NOT, and IsOp.IS_NOT to itself
C18_Witness ==
    /\ coerce # OpIdle /\ coerce.stage = 2 /\ coerce.family = "IS_OP"
    /\ coerce.arg = PyStr(<<"i", "s", "_", "n", "o", "t">>)
    /\ coerce.out2 = Returns(EnumMember("IsOp", <<"I", "S", "_", "N", "O", "T">>, 1))

(***************************************************************************)
(* C19  Everything else is rejected: an unknown symbol or name, an integer *)
(* that is no code of the family, and a value that is neither str, int nor *)
(* member make the coerce_* function raise an error that names the family  *)
(* and shows the offending argument; and no coerce_* function returns a    *)
(* member of another family.                                               *)
(***************************************************************************)
IsValidSpelling(arg, family) ==
    \E m \in ClassOf(family) : IsSpellingOf(arg, m, family)

IsInvalidSpelling(arg, family) ==
    \/ arg.t \in {"str", "int"} /\ ~IsValidSpelling(arg, family)
    \/ arg.t \in {"float", "NoneType"}

NamesFamilyAndInput(e, family, arg) ==
    /\ e.family = family
    /\ \E j \in 1..Len(e.shown) : e.shown[j] = arg

C19_InvalidSpellingsRejected ==
    Coerced =>
        /\ IsInvalidSpelling(coerce.arg, coerce.family) =>
              /\ ~coerce.out1.ok
              /\ NamesFamilyAndInput(coerce.out1, coerce.family, coerce.arg)
        /\ coerce.out1.ok => coerce.out1.value \in ClassOf(coerce.family)

(***************************************************************************)
(* C20  The order of main(): run_pyc is entered at most once, only after   *)
(* compile_file has returned, and with the str of exactly the path         *)
(* compile_file returned; it is never entered when -c is given; and when   *)
(* the source file does not exist neither compile_file nor run_pyc is      *)
(* entered: main() ends in sys.exit with the diagnostic.                   *)
(***************************************************************************)
CallsOf(fn) ==
    {j \in 1..Len(cli.calls) : cli.calls[j].ev = "call" /\ cli.calls[j].fn = fn}

ReturnsOf(fn) ==
    {j \in 1..Len(cli.calls) : cli.calls[j].ev = "return" /\ cli.calls[j].fn = fn}

RunAfterCompileReturned ==
    \A r \in CallsOf("run_pyc") :
        \E c \in ReturnsOf("compile_file") :
            /\ c < r
            /\ cli.calls[r].arg = str(cli.calls[c].value)

MissingSourceExits ==
    ~cli.src_exists =>
        /\ CallsOf("compile_file") = {} /\ CallsOf("run_pyc") = {}
        /\ cli.pc \in {"parse_args", "check_source", "exited"}
        /\ (cli.pc = "exited" /\ cli.argv.optlevel \in {NoOpt, 1, 2}) =>
              cli.exit = <<"error: source file not found", cli.argv.source>>

C20_RunOnlyAfterCompile ==
    cli # CliIdle =>
        /\ Cardinality(CallsOf("run_pyc")) <= 1
        /\ RunAfterCompileReturned
        /\ cli.argv.compile_only => CallsOf("run_pyc") = {}
        /\ MissingSourceExits

\* the program has been compiled with -O 2 next to a .py sibling and run
C20_Witness ==
    /\ cli # CliIdle /\ cli.pc = "done"
    /\ ~cli.argv.compile_only /\ cli.argv.optlevel = 2 /\ cli.py_sibling_exists
    /\ Len(cli.calls) = 4
    /\ cli.calls[3] = Called("run_pyc", str(cli.pyc_path), NoOpt)

(***************************************************************************)
(* C21  Loop lowering drops only framing and the implicit default return:  *)
(* for every RangeBlock of a scope's list, every operation of its body     *)
(* that is not a RESUME, not a return, and not the LOAD_CONST 0 standing   *)
(* right before a return, is in the rewritten stream, in body order,       *)
(* between the store of var after FOR_ITER and the JUMP_BACKWARD to the    *)
(* loop head.  A LOAD_CONST 0 the user wrote (LET x 0) is such an          *)
(* operation.                                                              *)
(***************************************************************************)
IsReturnInstr(x) == IsInstr(x) /\ x.op \in {"RETURN_VALUE", "RETURN_CONST"}

IsDefaultReturnLoad(body, m) ==
    /\ IsOp(body[m], "LOAD_CONST") /\ body[m].arg = IntArg(0)
    /\ m < Len(body) /\ IsReturnInstr(body[m + 1])

\* the operations of a loop body that are the user's
UserBodyInstrs(body) ==
    LET keep == SelectSeq([m \in 1..Len(body) |-> m],
                          LAMBDA m : /\ IsInstr(body[m])
                                     /\ ~IsOp(body[m], "RESUME")
                                     /\ ~IsReturnInstr(body[m])
                                     /\ ~IsDefaultReturnLoad(body, m))
    IN [j \in 1..Len(keep) |-> body[keep[j]]]

BodyKeptBetween(s, b, e, it) ==
    /\ b < e
    /\ IsInstr(s[b]) /\ s[b].op \in {"STORE_NAME", "STORE_FAST"}
    /\ s[b].arg = StrArg(it.var) /\ s[b].line = it.line
    /\ IsOp(s[e], "JUMP_BACKWARD")
    /\ \E l \in 1..(b - 1) : s[l].k = "Label" /\ s[e].arg = LblArg(s[l].id)
    /\ InOrderBetween(UserBodyInstrs(it.body), s, b + 1, e - 1)

C21_LoopKeepsUserOperations ==
    \A j \in 1..Len(stack) :
        Rewritten(stack[j]) =>
            \A k \in 1..Len(stack[j].given) :
                stack[j].given[k].k = "RangeBlock" =>
                    \E b, e \in 1..Len(stack[j].resolved_stream) :
                        BodyKeptBetween(stack[j].resolved_stream, b, e, stack[j].given[k])

(***************************************************************************)
(* C22  Nested loops: a RangeBlock written in the body of another          *)
(* RangeBlock is lowered too.  In the rewritten stream the inner loop      *)
(* (head Label, FOR_ITER, store of the inner var, JUMP_BACKWARD to the     *)
(* inner head, inner end Label) lies wholly between the outer loop's store *)
(* of var and the outer JUMP_BACKWARD, the four Labels are pairwise        *)
(* distinct, and no RangeBlock is left at any depth.                       *)
(***************************************************************************)
IsBindOf(x, it) ==
    /\ IsInstr(x) /\ x.op \in {"STORE_NAME", "STORE_FAST"}
    /\ x.arg = StrArg(it.var)

\* the loop of block it: head Label at h, store of var at b, JUMP_BACKWARD
\* at e, end Label right after it
LoopSpans(s, h, b, e, it) ==
    /\ h < b /\ b < e /\ e < Len(s)
    /\ s[h].k = "Label" /\ s[e + 1].k = "Label"
    /\ \E m \in (h + 1)..(b - 1) : IsOp(s[m], "FOR_ITER") /\ s[m].arg = LblArg(s[e + 1].id)
    /\ IsBindOf(s[b], it)
    /\ IsOp(s[e], "JUMP_BACKWARD") /\ s[e].arg = LblArg(s[h].id)

InnerLoopInside(s, outer, inner) ==
    \E h, b, e, ih, ib, ie \in 1..Len(s) :
        /\ LoopSpans(s, h, b, e, outer)
        /\ LoopSpans(s, ih, ib, ie, inner)
        /\ b < ih /\ ie + 1 < e
        /\ Cardinality({s[h].id, s[e + 1].id, s[ih].id, s[ie + 1].id}) = 4

NoRangeBlockLeft(s) == \A x \in ItemsWithin(s) : x.k # "RangeBlock"

C22_NestedLoopLowered ==
    \A j \in 1..Len(stack) :
        Rewritten(stack[j]) =>
            \A k \in 1..Len(stack[j].given) :
                stack[j].given[k].k = "RangeBlock" =>
                    \A m \in 1..Len(stack[j].given[k].body) :
                        stack[j].given[k].body[m].k = "RangeBlock" =>
                            /\ InnerLoopInside(stack[j].resolved_stream, stack[j].given[k],
                                               stack[j].given[k].body[m])
                            /\ NoRangeBlockLeft(stack[j].resolved_stream)

(***************************************************************************)
(* C23  Pass order and fail-fast.  Each Assembler goes through discovery,  *)
(* materialization, rewrite, jump patching, function/return lowering and   *)
(* the sanity check in that order, one pass after the other, and nothing   *)
(* runs after an error.  When an error is reported and a scope on the way  *)
(* has a duplicate label, that is the error; when it has a jump to an      *)
(* undefined label (and no duplicate), the error is that scope's and is    *)
(* not the module-scope ReturnMarker error nor an error of a function body *)
(* below it.  While a function body is being resolved the enclosing        *)
(* Assembler stands still at its FuncDef; it moves past it only when the   *)
(* body has returned.                                                      *)
(***************************************************************************)
PassRank(pc) ==
    CASE pc = "discover" -> 1
      [] pc = "build"    -> 2
      [] pc = "rewrite"  -> 3
      [] pc = "index"    -> 3
      [] pc = "patch"    -> 4
      [] pc = "lower"    -> 5
      [] pc = "sanity"   -> 6
      [] pc = "returned" -> 7

\* the error reported when Assembler j of the stack has errors of its own
ErrorsInPassOrder(j) ==
    /\ HasDuplicateDecl(stack[j].given)
          => j = Len(stack) /\ error.msg = "Duplicate LBL"
    /\ (~HasDuplicateDecl(stack[j].given) /\ UndefinedTargets(stack[j].given) # {})
          => j = Len(stack) /\ error.msg # "RET outside of SUB"

BodyBeingResolved(parent, child) ==
    /\ parent.pc = "lower"
    /\ parent.lpos \in Idx(parent.patched)
    /\ At(parent.patched, parent.lpos).k = "FuncDef"
    /\ child.given = At(parent.patched, parent.lpos).body
    /\ child.in_function

PassOrderState ==
    /\ status = "error" => \A j \in 1..Len(stack) : ErrorsInPassOrder(j)
    /\ \A j \in 1..(Len(stack) - 1) : BodyBeingResolved(stack[j], stack[j + 1])
    /\ (status = "error" /\ error.msg = "RET outside of SUB")
          => Top.pc = "lower" /\ ~Top.in_function

PassOrderStep ==
    /\ status = "running"
    \* only the innermost Assembler moves
    /\ \A j \in 1..(Len(stack) - 1) : j < Len(stack') => stack'[j] = stack[j]
    /\ Len(stack') = Len(stack) =>
          PassRank(stack'[Len(stack)].pc) - PassRank(Top.pc) \in {0, 1}
    \* a body is entered from the lowering pass and starts at discovery
    /\ Len(stack') > Len(stack) =>
          /\ Len(stack') = Len(stack) + 1
          /\ stack'[Len(stack')].pc = "discover"
          /\ Top.pc = "lower" /\ stack'[Len(stack)].pc = "lower"
    \* its parent goes on only when the body has been resolved completely
    /\ Len(stack') < Len(stack) =>
          /\ Len(stack') = Len(stack) - 1
          /\ Top.pc = "returned"
          /\ stack'[Len(stack')].pc = "lower"
          /\ stack'[Len(stack')].lpos = stack[Len(stack')].lpos + 1
          /\ stack'[Len(stack')].patched = stack[Len(stack')].patched

C23_PassOrder == []PassOrderState /\ [][PassOrderStep]_vars

(***************************************************************************)
(* C24  One RESUME per function: the body of the code object made for a    *)
(* function holds at most one RESUME; when the resolved body has a RESUME, *)
(* the first one stays at its position and the later ones are gone; the    *)
(* other operations and the Labels (the resolved body after the rewrite of *)
(* locals and globals) are all there, in their order, followed at most by  *)
(* the default return.                                                     *)
(***************************************************************************)
ResumesIn(s) == {m \in 1..Len(s) : IsOp(s[m], "RESUME")}

NonResume(s) == SelectSeq(s, LAMBDA x : ~IsOp(x, "RESUME"))

IsPrefixOf(a, b) == Len(a) <= Len(b) /\ \A m \in 1..Len(a) : b[m] = a[m]

OneResumeRule(rewritten, body) ==
    /\ Cardinality(ResumesIn(body)) <= 1
    /\ ResumesIn(rewritten) # {} =>
          \E first \in ResumesIn(rewritten) :
              /\ \A m \in ResumesIn(rewritten) : first <= m
              /\ ResumesIn(body) = {first}
              /\ body[first] = rewritten[first]
    /\ IsPrefixOf(NonResume(rewritten), NonResume(body))
    /\ Len(NonResume(body)) - Len(NonResume(rewritten)) \in {0, 2}

WithoutFlag(x) ==
    IF IsInstr(x) /\ x.arg.t = "lg" THEN [x EXCEPT !.arg.flag = FALSE] ELSE x

NonPushNull(s) ==
    LET kept == SelectSeq(s, LAMBDA x : ~IsOp(x, "PUSH_NULL"))
    IN [m \in 1..Len(kept) |-> WithoutFlag(kept[m])]

\* the positions (from 0) of the CALLs of s, in order
CallsIn(s) ==
    SelectSeq([m \in 1..Len(s) |-> m - 1], LAMBDA i : IsOp(At(s, i), "CALL"))

HasSentinel(s, i) ==
    CallableOf(s, i) # None /\ HasImmediateNull(s, CallableOf(s, i))

SentinelsStay(before, after) ==
    /\ Len(CallsIn(after)) = Len(CallsIn(before))
    /\ \A m \in 1..Len(CallsIn(before)) :
          HasSentinel(before, CallsIn(before)[m]) => HasSentinel(after, CallsIn(after)[m])

C25_OnlyPushNullTouched ==
    (nstage >= 1 /\ ~nout1.err)
        => /\ NonPushNull(nout1.s) = NonPushNull(nseq)
           /\ SentinelsStay(nseq, nout1.s)

(***************************************************************************)
(* C26  The normalizer's loop terminates: an iteration that processes a    *)
(* CALL ends (no exception) with the scan index strictly past that CALL,   *)
(* a CALL is never processed a second time, and the number of items from   *)
(* the scan index to the end of the list gets smaller with every           *)
(* iteration, so the loop reaches the end.                                 *)
(***************************************************************************)
ScanIteration == scan.pc = "scanning" /\ scan.i < Len(scan.s)

\* the position (from 0) of the Instr with identity c
PositionsOf(s, c) ==
    {p \in Idx(s) : IsInstr(At(s, p)) /\ "obj" \in DOMAIN At(s, p) /\ At(s, p).obj = c}

PastTheCall(c) ==
    /\ scan'.pc = "scanning"
    /\ c \notin SeqToSet(scan.done)
    /\ PositionsOf(scan'.s, c) # {}
    /\ \A p \in PositionsOf(scan'.s, c) : p < scan'.i

C26_ScanTerminates ==
    [][ScanIteration =>
          /\ IsOp(At(scan.s, scan.i), "CALL") => PastTheCall(At(scan.s, scan.i).obj)
          /\ Len(scan'.s) - scan'.i < Len(scan.s) - scan.i]_vars

(***************************************************************************)
(* C27  Labels of a returned list: a Label object is an element of the     *)
(* list at most once; the Label a jump or a FOR_ITER has as operand is an  *)
(* element of the list exactly once; every jump of the scope that names a  *)
(* label has become an operation carrying a Label object, the same object  *)
(* for the same name and different objects for different names.            *)
(***************************************************************************)
LabelPlaces(s, id) == {m \in 1..Len(s) : s[m] = Label(id)}

LabelOperands(s) ==
    {s[m].arg.l : m \in {q \in 1..Len(s) : IsInstr(s[q]) /\ s[q].arg.t = "label"}}

\* the entries of the rewritten stream that are jumps naming a label
NamesLabel(e) == e.k = "Placeholder" \/ IsNamedJumpItem(e)
NamedBy(e) == IF e.k = "Placeholder" THEN e.ref.target_name ELSE JumpTargetOf(e)

CarriesLabel(x) == IsInstr(x) /\ x.arg.t = "label"

OneObjectPerName(f) ==
    \A a, b \in 1..Len(f.resolved_stream) :
        (NamesLabel(f.resolved_stream[a]) /\ NamesLabel(f.resolved_stream[b])) =>
            /\ CarriesLabel(f.patched[a]) /\ CarriesLabel(f.patched[b])
            /\ (NamedBy(f.resolved_stream[a]) = NamedBy(f.resolved_stream[b]))
                  <=> (f.patched[a].arg.l = f.patched[b].arg.l)

LabelsOfReturnedList(f) ==
    /\ \A m \in 1..Len(f.final) :
          f.final[m].k = "Label" => LabelPlaces(f.final, f.final[m].id) = {m}
    /\ \A id \in LabelOperands(f.final) : Cardinality(LabelPlaces(f.final, id)) = 1
    /\ OneObjectPerName(f)

C27_LabelObjects ==
    \A j \in 1..Len(stack) : Returned(stack[j]) => LabelsOfReturnedList(stack[j])

(***************************************************************************)
(* C28.  The lines of the source parsed, and the block each line is in by  *)
(* matching every closer with the opener opened last.                      *)
(***************************************************************************)
LinesOfSource == {n \in 1..Len(parser.toks) : \E j \in 1..Len(parser.toks) :
                     parser.toks[j].line = n /\ parser.toks[j].type = "NAME"}

\* the first word of line n, in capitals
FirstWord(n) ==
    LET first == CHOOSE j \in 1..Len(parser.toks) :
                     /\ parser.toks[j].line = n
                     /\ \A l \in 1..(j - 1) : parser.toks[l].line # n
    IN upper(parser.toks[first].string)

IsOpener(n) == FirstWord(n) \in {S_RNG, S_SUB}
IsCloser(n) == FirstWord(n) \in {S_RNE, S_SBE}

\* the openers still open after line n, the innermost last
RECURSIVE OpenAfter(_)
OpenAfter(n) ==
    IF n = 0 THEN <<>>
    ELSE IF IsOpener(n) THEN Append(OpenAfter(n - 1), n)
    ELSE IF IsCloser(n) /\ OpenAfter(n - 1) # <<>>
    THEN SubSeq(OpenAfter(n - 1), 1, Len(OpenAfter(n - 1)) - 1)
    ELSE OpenAfter(n - 1)

\* the line of the opener of the block line n is a statement of, 0 at the
\* top level
Encloser(n) ==
    IF OpenAfter(n - 1) = <<>> THEN 0 ELSE OpenAfter(n - 1)[Len(OpenAfter(n - 1))]

\* the statements of the source between an opener and its closer that are
\* in no block nested between them
StatementsOf(opener) ==
    {n \in LinesOfSource : ~IsCloser(n) /\ Encloser(n) = opener}

IsBlock(x) == x.k \in {"RangeBlock", "FuncDef"}

\* the blocks parsed, at every depth
RECURSIVE BlocksIn(_)
BlocksIn(items) ==
    UNION {IF IsBlock(items[j]) THEN {items[j]} \cup BlocksIn(items[j].body) ELSE {}
              : j \in 1..Len(items)}

\* the lines of the statements a parsed body holds, the framing of the body
\* set aside
BodyLines(body) ==
    {body[j].line : j \in {l \in 1..Len(body) :
        IsBlock(body[l]) \/ body[l].op \notin {"RESUME", "LOAD_CONST", "RETURN_VALUE"}}}

\* the block parsed from the opener of a line has the statements of that
\* block of the source, and no other
ParsedExactly(opener) ==
    \E b \in BlocksIn(parser.items) :
        b.line = opener /\ BodyLines(b.body) = StatementsOf(opener)

\* a block of the source with a block of its kind right inside it
SameKindNesting(outer, inner) ==
    /\ outer \in LinesOfSource /\ inner \in LinesOfSource
    /\ IsOpener(outer) /\ IsOpener(inner)
    /\ FirstWord(outer) = FirstWord(inner)
    /\ Encloser(inner) = outer

\* C28: when a block of the source holds a block of the same kind, the
\* source is parsed, the inner block parsed holds exactly the statements
\* between the inner opener and the inner closer, the outer block holds
\* exactly its own statements, those after the inner closer included, and
\* no closer line leaves an item in either body
C28_SameKindNesting ==
    parser.pc \in {"returned", "raised"}
        => \A outer, inner \in LinesOfSource :
               SameKindNesting(outer, inner)
                   => /\ parser.pc = "returned"
                      /\ ParsedExactly(inner)
                      /\ ParsedExactly(outer)

(***************************************************************************)
(* C29.  The operation each bare operator stands for: the instruction and  *)
(* the name of the member of its enum.                                     *)
(***************************************************************************)
OperationOf ==
    (<<"+">> :> <<"BINARY_OP", <<"A", "D", "D">>>>)
    @@ (<<"-">> :> <<"BINARY_OP", <<"S", "U", "B", "T", "R", "A", "C", "T">>>>)
    @@ (<<"*">> :> <<"BINARY_OP", <<"M", "U", "L", "T", "I", "P", "L", "Y">>>>)
    @@ (<<"/">> :> <<"BINARY_OP", <<"T", "R", "U", "E", "_", "D", "I", "V", "I", "D", "E">>>>)
    @@ (<<"%">> :> <<"BINARY_OP", <<"R", "E", "M", "A", "I", "N", "D", "E", "R">>>>)
    @@ (<<"/", "/">> :> <<"BINARY_OP",
                          <<"F", "L", "O", "O", "R", "_", "D", "I", "V", "I", "D", "E">>>>)
    @@ (<<"*", "*">> :> <<"BINARY_OP", <<"P", "O", "W", "E", "R">>>>)
    @@ (<<"|">> :> <<"BINARY_OP", <<"O", "R">>>>)
    @@ (<<"&">> :> <<"BINARY_OP", <<"A", "N", "D">>>>)
    @@ (<<"^">> :> <<"BINARY_OP", <<"X", "O", "R">>>>)
    @@ (<<"<", "<">> :> <<"BINARY_OP", <<"L", "S", "H", "I", "F", "T">>>>)
    @@ (<<">", ">">> :> <<"BINARY_OP", <<"R", "S", "H", "I", "F", "T">>>>)
    @@ (<<"=", "=">> :> <<"COMPARE_OP", <<"E", "Q">>>>)
    @@ (<<"!", "=">> :> <<"COMPARE_OP", <<"N", "E">>>>)
    @@ (<<"<">> :> <<"COMPARE_OP", <<"L", "T">>>>)
    @@ (<<"<", "=">> :> <<"COMPARE_OP", <<"L", "E">>>>)
    @@ (<<">">> :> <<"COMPARE_OP", <<"G", "T">>>>)
    @@ (<<">", "=">> :> <<"COMPARE_OP", <<"G", "E">>>>)

\* the file parsed is the line LET d a <op> b
ParsedLetWith(o) ==
    parser.pc \in {"returned", "raised"} /\ parser.toks = Tokenize(<<LetOperatorLine(o)>>, 1)

\* LET was called once, with d, a, the operator and b
ReachesLetWith(o) ==
    /\ Len(parser.calls) = 1
    /\ parser.calls[1].op = S_LET
    /\ parser.calls[1].args
           = <<IdentTok(<<"d">>), IdentTok(<<"a">>), PyStr(o), IdentTok(<<"b">>)>>

IsFraming(x) ==
    IsInstr(x) /\ (x.op \in {"RESUME", "RETURN_VALUE"} \/ x = Instr("LOAD_CONST", IntArg(0), x.line))

\* load a, load b, the operation of the operator, store d
LowersTo(items, o) ==
    /\ Len(items) = 4
    /\ items[1] = Instr("LOAD_NAME", StrArg(<<"a">>), 1)
    /\ items[2] = Instr("LOAD_NAME", StrArg(<<"b">>), 1)
    /\ items[3].k = "Instr" /\ items[3].op = OperationOf[o][1]
    /\ items[3].arg.t = "enum" /\ items[3].arg.name = OperationOf[o][2]
    /\ items[4] = Instr("STORE_NAME", StrArg(<<"d">>), 1)

\* C29: for every operator allowed bare, the line LET d a <op> b reaches
\* LET with the four arguments d, a, the operator and b, and is lowered to
\* load a, load b, the operation, store d
C29_BareOperators ==
    \A o \in ALLOWED_OPS :
        ParsedLetWith(o)
            => /\ parser.pc = "returned"
               /\ ReachesLetWith(o)
               /\ LowersTo(SelectSeq(parser.items, LAMBDA x : ~IsFraming(x)), o)

(***************************************************************************)
(* C30.  The last load: the bytes of the source when it ran, the cache     *)
(* file it found and left, what it returned and whether from the cache.    *)
(***************************************************************************)
HasLoaded == cache.pc = "ready" /\ cache.last # NotLoaded

\* the cache file exists, begins with the current magic number, has the
\* hash-based flag set and stores the hash of the bytes
ValidFor(file, src_bytes) ==
    /\ file # NoFile
    /\ file.magic = "MAGIC_NUMBER"
    /\ file.flags % 2 = 1
    /\ file.word = source_hash(src_bytes)

\* the checked hash-based entry of the code assembled from the bytes
FreshEntry(src_bytes) == make_hash_pyc(CodeOf(src_bytes), src_bytes, TRUE)

ReusedOnlyWhenValid ==
    cache.last.hit
        => /\ ValidFor(cache.last.before, cache.last.bytes)
           /\ cache.last.ret = cache.last.before.code

====
